---------------------------- MODULE Spec2Model ----------------------------
(***************************************************************************)
(* State-machine model of the lilymoog synthesizer core:                   *)
(*   - the ADSR envelope          (src/src/moog/enveloppe/adsr.c)          *)
(*   - the resonant low-pass      (low_pass.c, in src/src/moog/moog.c)     *)
(*   - the saw oscillator         (src/src/moog/generators/saw_gen.c)      *)
(*                                                                         *)
(* Each component has its own specification (SpecAdsr, SpecLpf, SpecSaw);  *)
(* the variables of the other components stay at their initial value.      *)
(*                                                                         *)
(* Numbers.  C floats that only take part in comparisons, products and     *)
(* quotients (envelope factors, intensities) are exact rationals           *)
(* [n |-> numerator, d |-> denominator] in lowest terms.  Frequencies are  *)
(* integers (Hz) extended with the IEEE specials +inf, -inf and NaN.       *)
(* Fixed-point values are integers; 32-bit overflow wraps.                 *)
(***************************************************************************)
EXTENDS Integers, Sequences, FiniteSets, TLC

VARIABLES
    adsr,        \* struct adsr (adsr.c:41-62), plus `alloc` (handle # NULL)
    adsrCall,    \* last adsr_toggle call: its arguments, result, pre-state
    adsrSince,   \* samples processed by adsr_process since that call
    adsrOut,     \* last value written to enveloppe[] by adsr_process
    adsrOob,     \* TRUE once a ramp table was read at an index >= its length
    sawGen,      \* struct saw_gen (saw_gen.c:33-42), plus `alloc`
    sawOut,      \* out[] of the last saw_gen_process call
    sawSteady,   \* no frequency/intensity call was accepted since creation
    sawFrames,   \* number of saw_gen_process calls so far
    sawRet,      \* result of the last saw_gen_* call
    lp,          \* struct low_pass (moog.c:517-532), plus `alloc`
    lpCall,      \* last filter call other than process: arguments, result,
                 \* and the filter before the call
    lpSince,     \* samples processed by low_pass_process since that call
    lpSamples,   \* samples processed since the filter was created
    lpCalls,     \* number of update / sweep calls so far
    lpOut,       \* last sample written to out[] by low_pass_process
    lpPending,   \* what the accepted calls have left to do: the samples
                 \* missing to the crossfade of the last accepted
                 \* low_pass_update, and whether an accepted sweep has not
                 \* landed yet
    sineGen,     \* struct sine_gen (saw_gen.c:242-268), plus `alloc`
    sineCall,    \* last sine_gen_set_frequency call: argument, result, the
                 \* generator before the call and the value of sineFrames
    sineOut,     \* out[] of the last sine_gen_process call
    sineFrames,  \* number of sine_gen_process calls so far
    sineCalls,   \* number of sine_gen_set_frequency calls so far
    moog,        \* struct moog (moog.c:43-67), plus `alloc`; the handles it
                 \* points to are held by value
    moogCall,    \* last control call on the voice: name, argument, result,
                 \* the voice before the call and the value of moogFrames
    moogAccepted,\* intensity of the last moog_set_intensity call that
                 \* returned 0 (0 before the first)
    moogOn,      \* a moog_toggle call with a non-zero state has returned 0
    moogOut,     \* output[] of the last moog_process call
    moogNonZero, \* number of non-zero samples output since creation
    moogFrames,  \* number of moog_process calls so far
    moogCalls,   \* number of control calls so far
    wave,        \* struct wave_gen (square_gen.c:240-244), plus `alloc`
    waveCall,    \* last wave_gen_set_frequency call: argument, result and
                 \* the generator before the call
    waveRetry,   \* the request rejected with -EAGAIN and what became of it
    waveFrames,  \* number of wave_gen_process calls so far
    waveCalls,   \* number of wave_gen_set_frequency calls so far
    noteCall,    \* last get_note call: rank, note name and result
    cfgCall,     \* last parse_cfg call: the file's lines, the caller's
                 \* struct cfg before the call, result and struct cfg after
    drv,         \* main of lilymoog.c: position, loop counters, rank, length,
                 \* exit status, and its inputs (sequence, pre- and post-fill)
    drvSet,      \* the last moog_filter_set_parameters call of main: the event,
                 \* the parameters read before it and the arguments passed
    drvReq,      \* the last requests the voice accepted from main: frequency,
                 \* the one before, filter parameters
    drvMid,      \* TRUE when, in the last frame, the frequency reported by the
                 \* voice changed after the first sample of the frame
    sqGen,       \* struct square_gen (square_gen.c:33-42), plus `alloc`
    sqCall,      \* last square_gen_set_* call: name, argument, result and
                 \* the generator before the call
    sqOut,       \* last sample written to out[] by square_gen_process
    sqHigh,      \* the half of the period the generator is in: high at
                 \* creation, the other one after each half period processed
    sqSteady,    \* no square_gen_set_* call was accepted since creation
    sqSamples,   \* samples processed since creation
    sqCalls,     \* number of square_gen_set_* calls so far
    lpTwin,      \* a second struct low_pass, driven by the same calls and
                 \* inputs as lp but with other gain values
    lpTwinOut,   \* last sample written to out[] by its low_pass_process
    lpTwinRet,   \* result of its last call other than process
    lpGains,     \* the gain values passed to lp and to lpTwin in the last
                 \* accepted low_pass_create or low_pass_update
    sineStart    \* sample-by-sample runs of the sine generator: the number
                 \* of samples processed before the first sample of the
                 \* frequency transition in progress (-1 when none is)

adsrVars == <<adsr, adsrCall, adsrSince, adsrOut, adsrOob>>

sawVars == <<sawGen, sawOut, sawSteady, sawFrames, sawRet>>

lpVars == <<lp, lpCall, lpSince, lpSamples, lpCalls, lpOut, lpPending>>

sineVars == <<sineGen, sineCall, sineOut, sineFrames, sineCalls>>

moogVars ==
    <<moog, moogCall, moogAccepted, moogOn, moogOut, moogNonZero, moogFrames,
      moogCalls>>

waveVars == <<wave, waveCall, waveRetry, waveFrames, waveCalls>>

noteVars == <<noteCall>>

cfgVars == <<cfgCall>>

drvVars == <<drv, drvSet, drvReq, drvMid>>

twinVars == <<lpTwin, lpTwinOut, lpTwinRet, lpGains>>

sqVars == <<sqGen, sqCall, sqOut, sqHigh, sqSteady, sqSamples, sqCalls>>

smpVars == <<sineStart>>

vars == <<adsrVars, sawVars, lpVars, sineVars, moogVars, waveVars,
          noteVars, cfgVars, drvVars, smpVars, sqVars, twinVars>>

-----------------------------------------------------------------------------
(* errno values (errno.h) *)
EINVAL == 22
EAGAIN == 11

-----------------------------------------------------------------------------
(* Exact rationals *)

RECURSIVE Gcd(_, _)
Gcd(a, b) == IF b = 0 THEN a ELSE Gcd(b, a % b)

Abs(x) == IF x < 0 THEN -x ELSE x

\* n/d in lowest terms with a positive denominator (d # 0)
Rat(n, d) ==
    LET g == Gcd(Abs(n), Abs(d))
        s == IF d < 0 THEN -1 ELSE 1
    IN  [n |-> s * (n \div g), d |-> s * (d \div g)]

RZero == [n |-> 0, d |-> 1]
ROne  == [n |-> 1, d |-> 1]

\* sums over the least common denominator
RAdd(a, b) ==
    LET g == Gcd(a.d, b.d)
    IN  Rat(a.n * (b.d \div g) + b.n * (a.d \div g), (a.d \div g) * b.d)
RSub(a, b) ==
    LET g == Gcd(a.d, b.d)
    IN  Rat(a.n * (b.d \div g) - b.n * (a.d \div g), (a.d \div g) * b.d)
RMul(a, b) == Rat(a.n * b.n, a.d * b.d)
RLt(a, b)  == a.n * b.d < b.n * a.d
RLe(a, b)  == a.n * b.d <= b.n * a.d
\* (int)(x): truncation toward zero
RTrunc(a)  == IF a.n >= 0 THEN a.n \div a.d ELSE -((-a.n) \div a.d)

-----------------------------------------------------------------------------
(* Sequencing: F(v) with v computed first, as a C statement sequence does *)
Then(v, F(_)) == CHOOSE r \in {F(x) : x \in {v}} : TRUE

-----------------------------------------------------------------------------
(* Scaling *)

\* floor(a * n / d) for 0 <= a < 2^31 and 0 <= n <= d, bit by bit from the
\* bit of weight w of a: Q * d + R is n times the bits of a already read
RECURSIVE ScaleBits(_, _, _, _, _, _)
ScaleBits(a, w, n, d, Q, R) ==
    IF w = 0
    THEN Q
    ELSE LET add == IF (a \div w) % 2 = 1 THEN n ELSE 0
             c1  == R >= d - R
             R1  == IF c1 THEN R - (d - R) ELSE R + R
             c2  == add > 0 /\ R1 >= d - add
             R2  == IF c2 THEN R1 - (d - add) ELSE R1 + add
         IN  ScaleBits(a, w \div 2, n, d,
                       2 * Q + (IF c1 THEN 1 ELSE 0) + (IF c2 THEN 1 ELSE 0),
                       R2)

\* floor(a * n / d) for 0 <= a < 2^31 and 0 <= n <= d, formed without the
\* product a * n
ScaleDown(a, n, d) ==
    IF d <= 32768
    THEN n * (a \div d) + ((n * (a % d)) \div d)
    ELSE ScaleBits(a, 2^30, n, d, 0, 0)

-----------------------------------------------------------------------------
(* ADSR envelope: adsr.c *)

\* enum adsr_state (adsr.c:32-38)
ADSR_IDLE    == "IDLE"
ADSR_ATTACK  == "ATTACK"
ADSR_DECAY   == "DECAY"
ADSR_SUSTAIN == "SUSTAIN"
ADSR_RELEASE == "RELEASE"

\* Bounds of the envelope model
MaxAdsrSince == 9        \* samples processed after the last toggle call

\* Inputs of adsr_create: struct adsr_params (fs in Hz, durations in ms)
AdsrFs       == {500, 1000, 0}
AdsrAttack   == {1, 3, 0}
AdsrDecay    == {1, 2}
AdsrRelease  == {0, 1, 3, -1}
AdsrSustain  == {Rat(7, 10), ROne, RZero, Rat(6, 5)}
\* Inputs of adsr_toggle
ToggleStates      == {0, 1, 2}
ToggleIntensities == {RZero, Rat(3, 5), ROne, Rat(3, 2), Rat(-1, 10)}
\* What a read past the end of a ramp table may return
OobFactors   == {RZero, ROne}

\* handle returned by a failed adsr_create
NullAdsr ==
    [alloc |-> FALSE, sustain |-> RZero, intensity |-> RZero,
     decay_len |-> 0, attack_len |-> 0, release_len |-> 0,
     index |-> 0, state_factor |-> RZero, state |-> ADSR_IDLE]

\* mutant: the attack ramp is filled from the top down
attack_table_falling(h, i) == Rat(h.attack_len - i, h.attack_len)

\* attack_table[i] = (float)i / attack_len                  (adsr.c:160-161)
attack_table(h, i) == Rat(i, h.attack_len)

\* decay_table[i] = sustain + (1 - sustain) * (decay_len - i) / decay_len
\*                                                          (adsr.c:168-170)
decay_table(h, i) ==
    RAdd(h.sustain,
         RMul(RMul(RSub(ROne, h.sustain), Rat(h.decay_len - i, 1)),
              Rat(1, h.decay_len)))

\* release_table[i] = sustain * (release_len - i) / release_len
\*                                                          (adsr.c:176-178)
release_table(h, i) ==
    RMul(RMul(h.sustain, Rat(h.release_len - i, 1)), Rat(1, h.release_len))

\* adsr_create: parameter check and table lengths.  calloc(0, ...) may
\* return NULL (zeroOk = FALSE) or a zero-sized block (zeroOk = TRUE).
adsr_create(p, zeroOk) ==
    LET al == RTrunc(Rat(p.attack * p.fs, 1000))
        dl == RTrunc(Rat(p.decay * p.fs, 1000))
        rl == RTrunc(Rat(p.release * p.fs, 1000))
    IN  IF \/ p.fs <= 0
           \/ p.attack <= 0
           \/ p.decay <= 0
           \/ RLe(p.sustain, RZero)
           \/ RLt(ROne, p.sustain)
           \/ p.release < 0
        THEN NullAdsr
        ELSE IF ~zeroOk /\ (al = 0 \/ dl = 0 \/ rl = 0)
        THEN NullAdsr
        ELSE [alloc |-> TRUE, sustain |-> p.sustain, intensity |-> RZero,
              decay_len |-> dl, attack_len |-> al, release_len |-> rl,
              index |-> 0, state_factor |-> RZero, state |-> ADSR_IDLE]

\* adsr_state_update, case ADSR_ATTACK (adsr.c:73-88).  The results are sets
\* of possible next handles: a table read at an index >= the table length is
\* undefined and may yield any value of OobFactors.
adsr_update_attack(h) ==
    IF h.index + 1 < h.attack_len
    THEN {[h EXCEPT !.index = h.index + 1,
                    !.state_factor = attack_table(h, h.index + 1)]}
    ELSE IF 0 < h.decay_len
    THEN {[h EXCEPT !.state = ADSR_DECAY, !.index = 0,
                    !.state_factor = decay_table(h, 0)]}
    ELSE {[h EXCEPT !.state = ADSR_DECAY, !.index = 0,
                    !.state_factor = f] : f \in OobFactors}

\* mutant: the switch to sustain happens one sample late
adsr_update_decay_late(h) ==
    IF h.index + 1 <= h.decay_len
    THEN {[h EXCEPT !.index = h.index + 1,
                    !.state_factor = h.sustain]}
    ELSE {[h EXCEPT !.state = ADSR_SUSTAIN, !.index = 0,
                    !.state_factor = h.sustain]}

\* adsr_state_update, case ADSR_DECAY (adsr.c:90-105)
adsr_update_decay(h) ==
    IF h.index + 1 < h.decay_len
    THEN {[h EXCEPT !.index = h.index + 1,
                    !.state_factor = decay_table(h, h.index + 1)]}
    ELSE {[h EXCEPT !.state = ADSR_SUSTAIN, !.index = 0,
                    !.state_factor = h.sustain]}

\* mutant: the end of the release keeps the captured intensity and the last
\* release factor
adsr_update_release_keep(h) ==
    IF h.index + 1 < h.release_len
    THEN {[h EXCEPT !.index = h.index + 1,
                    !.state_factor = release_table(h, h.index + 1)]}
    ELSE {[h EXCEPT !.state = ADSR_IDLE, !.index = 0]}

\* adsr_state_update, case ADSR_RELEASE (adsr.c:111-127)
adsr_update_release(h) ==
    IF h.index + 1 < h.release_len
    THEN {[h EXCEPT !.index = h.index + 1,
                    !.state_factor = release_table(h, h.index + 1)]}
    ELSE {[h EXCEPT !.state = ADSR_IDLE, !.index = 0,
                    !.intensity = RZero,
                    !.state_factor = RZero]}

\* adsr_state_update (adsr.c:65-129)
adsr_state_update(h) ==
    CASE h.state = ADSR_IDLE    -> {h}
      [] h.state = ADSR_ATTACK  -> adsr_update_attack(h)
      [] h.state = ADSR_DECAY   -> adsr_update_decay(h)
      [] h.state = ADSR_SUSTAIN -> {h}
      [] h.state = ADSR_RELEASE -> adsr_update_release(h)

\* TRUE when adsr_state_update reads a table past its end
adsr_update_oob(h) ==
    h.state = ADSR_ATTACK /\ ~(h.index + 1 < h.attack_len) /\ h.decay_len = 0

\* mutant: a trigger ON in SUSTAIN captures the new intensity, and one in a
\* transition restarts the attack
adsr_toggle_on_retrigger(h, intensity) ==
    IF h.state = ADSR_SUSTAIN
    THEN [ret |-> 0, h |-> [h EXCEPT !.intensity = intensity]]
    ELSE [ret |-> 0,
          h |-> [h EXCEPT !.intensity = intensity,
                          !.state = ADSR_ATTACK,
                          !.index = 0,
                          !.state_factor = RZero]]

\* adsr_toggle, branch state == 1 (adsr.c:227-241)
adsr_toggle_on(h, intensity) ==
    IF h.state # ADSR_IDLE /\ h.state # ADSR_SUSTAIN
    THEN [ret |-> -EAGAIN, h |-> h]
    ELSE IF h.state = ADSR_IDLE
    THEN [ret |-> 0,
          h |-> [h EXCEPT !.intensity = intensity,
                          !.state = ADSR_ATTACK,
                          !.index = 0,
                          !.state_factor = RZero]]
    ELSE [ret |-> 0, h |-> h]

\* mutant: a trigger OFF restarts a release in progress
adsr_toggle_off_restart(h) ==
    IF h.state = ADSR_IDLE
    THEN [ret |-> 0, h |-> h]
    ELSE [ret |-> 0,
          h |-> [h EXCEPT !.state = ADSR_RELEASE,
                          !.index = 0,
                          !.state_factor = h.sustain]]

\* mutant: the release starts from the current factor
adsr_toggle_off_smooth(h) ==
    IF h.state = ADSR_IDLE \/ h.state = ADSR_RELEASE
    THEN [ret |-> 0, h |-> h]
    ELSE [ret |-> 0,
          h |-> [h EXCEPT !.state = ADSR_RELEASE,
                          !.index = 0]]

\* adsr_toggle, branch state == 0 (adsr.c:243-258)
adsr_toggle_off(h) ==
    IF h.state = ADSR_IDLE \/ h.state = ADSR_RELEASE
    THEN [ret |-> 0, h |-> h]
    ELSE [ret |-> 0,
          h |-> [h EXCEPT !.state = ADSR_RELEASE,
                          !.index = 0,
                          !.state_factor = h.sustain]]

\* adsr_toggle (adsr.c:215-263): [ret, h], the result and the handle after it
adsr_toggle(h, state, intensity) ==
    IF \/ ~h.alloc
       \/ RLt(intensity, RZero)
       \/ RLt(ROne, intensity)
       \/ (state # 0 /\ state # 1)
    THEN [ret |-> -EINVAL, h |-> h]
    ELSE IF state = 1
    THEN adsr_toggle_on(h, intensity)
    ELSE adsr_toggle_off(h)

NoAdsrCall == [state |-> -1, intensity |-> RZero, ret |-> 0, pre |-> NullAdsr]

AdsrParams ==
    [fs : AdsrFs, attack : AdsrAttack, decay : AdsrDecay,
     sustain : AdsrSustain, release : AdsrRelease]

InitAdsrVars ==
    /\ \E p \in AdsrParams, zeroOk \in BOOLEAN : adsr = adsr_create(p, zeroOk)
    /\ adsrCall = NoAdsrCall
    /\ adsrSince = 0
    /\ adsrOut = RZero
    /\ adsrOob = FALSE

\* One call adsr_toggle(handle, state, intensity)
AdsrToggle ==
    \E state \in ToggleStates, intensity \in ToggleIntensities :
        LET r == adsr_toggle(adsr, state, intensity) IN
        /\ adsr' = r.h
        /\ adsrCall' = [state |-> state, intensity |-> intensity,
                        ret |-> r.ret, pre |-> adsr]
        /\ adsrSince' = 0
        /\ UNCHANGED <<adsrOut, adsrOob>>

\* One call adsr_process(handle, 1, enveloppe): one iteration of its loop
AdsrProcess ==
    /\ adsr.alloc
    /\ adsrSince < MaxAdsrSince
    /\ adsrOut' = RMul(adsr.intensity, adsr.state_factor)
    /\ adsr' \in adsr_state_update(adsr)
    /\ adsrOob' = (adsrOob \/ adsr_update_oob(adsr))
    /\ adsrSince' = adsrSince + 1
    /\ UNCHANGED adsrCall

IdleAdsrVars ==
    /\ adsr = NullAdsr
    /\ adsrCall = NoAdsrCall
    /\ adsrSince = 0
    /\ adsrOut = RZero
    /\ adsrOob = FALSE

-----------------------------------------------------------------------------
(* Saw oscillator: saw_gen.c *)

\* saw_gen.c:30
QS823_MAX == 8388607

\* Bounds of the saw model
SawFrameLen  == 8        \* nb_frames of each saw_gen_process call
MaxSawFrames == 4        \* saw_gen_process calls in a run

\* Inputs of saw_gen_create, saw_gen_set_frequency, saw_gen_set_intensity.
\* Every f0/fs reduces to a fraction with a numerator below 128, which keeps
\* 2 * i_max * f0 / fs inside the checker's integers.
SawFs          == {48000, 0, -1}
SawF0          == {4800, 12000, 0, 24000, 48000, 96000, -1}
SawIntensities == {ROne, Rat(3, 5), RZero, Rat(3, 2), Rat(-1, 10)}

NullSaw ==
    [alloc |-> FALSE, f0 |-> 0, fs |-> 0, intensity |-> RZero,
     step |-> 0, i_max |-> 0, i_min |-> 0, i_current |-> 0]

\* (int32_t)(intensity * QS823_MAX)              (saw_gen.c:64, 165)
saw_i_max(intensity) == RTrunc(RMul(intensity, Rat(QS823_MAX, 1)))

\* (int32_t)((2 * i_max) * (f0 / fs))            (saw_gen.c:66, 124, 167)
saw_step(i_max, f0, fs) == RTrunc(RMul(Rat(2 * i_max, 1), Rat(f0, fs)))

\* saw_gen_create (saw_gen.c:45-76); f0 >= fs/2 is written 2 * f0 >= fs
saw_gen_create(p) ==
    IF \/ p.fs < 0
       \/ p.f0 < 0
       \/ 2 * p.f0 >= p.fs
       \/ RLt(p.intensity, RZero)
       \/ RLt(ROne, p.intensity)
    THEN NullSaw
    ELSE [alloc |-> TRUE, f0 |-> p.f0, fs |-> p.fs,
          intensity |-> p.intensity,
          i_max |-> saw_i_max(p.intensity),
          i_min |-> -saw_i_max(p.intensity),
          step |-> saw_step(saw_i_max(p.intensity), p.f0, p.fs),
          i_current |-> saw_i_max(p.intensity)]

\* mutant: the new frequency changes the step but is not stored
saw_gen_set_frequency_step(h, f0) ==
    IF ~h.alloc \/ f0 < 0 \/ f0 > h.fs
    THEN [ret |-> -EINVAL, h |-> h]
    ELSE [ret |-> 0,
          h |-> [h EXCEPT !.step = saw_step(h.i_max, f0, h.fs)]]

\* saw_gen_set_frequency (saw_gen.c:111-131): [ret, h]
saw_gen_set_frequency(h, f0) ==
    IF ~h.alloc \/ f0 < 0 \/ f0 > h.fs
    THEN [ret |-> -EINVAL, h |-> h]
    ELSE [ret |-> 0,
          h |-> [h EXCEPT !.f0 = f0,
                          !.step = saw_step(h.i_max, f0, h.fs)]]

\* saw_gen_set_intensity (saw_gen.c:152-174): [ret, h]
saw_gen_set_intensity(h, intensity) ==
    IF ~h.alloc \/ RLt(intensity, RZero) \/ RLt(ROne, intensity)
    THEN [ret |-> -EINVAL, h |-> h]
    ELSE [ret |-> 0,
          h |-> [h EXCEPT !.intensity = intensity,
                          !.i_max = saw_i_max(intensity),
                          !.i_min = -saw_i_max(intensity),
                          !.step = saw_step(saw_i_max(intensity), h.f0, h.fs)]]

\* one iteration of the loop of saw_gen_process (saw_gen.c:187-195):
\* the value of i_current after out[i] has been written
saw_next(h) ==
    LET c == h.i_current - h.step IN
    IF c < h.i_min
    THEN h.i_max - (c - h.i_min)
    ELSE c

\* saw_gen_process (saw_gen.c:177-200): [h, out] after nb_frames samples.
\* The loop is unfolded by halves: the first half of the samples, then the
\* rest from the handle the first half leaves.
RECURSIVE saw_gen_process(_, _)
saw_gen_process(h, nb_frames) ==
    IF nb_frames <= 0
    THEN [h |-> h, out |-> << >>]
    ELSE IF nb_frames = 1
    THEN [h |-> [h EXCEPT !.i_current = saw_next(h)],
          out |-> <<h.i_current>>]
    ELSE Then(saw_gen_process(h, nb_frames \div 2), LAMBDA a :
         Then(saw_gen_process(a.h, nb_frames - (nb_frames \div 2)), LAMBDA b :
              [h |-> b.h, out |-> a.out \o b.out]))

SawParams == [fs : SawFs, f0 : SawF0, intensity : SawIntensities]

InitSawVars ==
    /\ \E p \in SawParams : sawGen = saw_gen_create(p)
    /\ sawOut = << >>
    /\ sawSteady = TRUE
    /\ sawFrames = 0
    /\ sawRet = 0

IdleSawVars ==
    /\ sawGen = NullSaw
    /\ sawOut = << >>
    /\ sawSteady = TRUE
    /\ sawFrames = 0
    /\ sawRet = 0

SawSetFrequency ==
    /\ sawFrames < MaxSawFrames
    /\ \E f0 \in SawF0 :
        LET r == saw_gen_set_frequency(sawGen, f0) IN
        /\ sawGen' = r.h
        /\ sawRet' = r.ret
        /\ sawSteady' = (sawSteady /\ r.ret # 0)
    /\ UNCHANGED <<sawOut, sawFrames>>

SawSetIntensity ==
    /\ sawFrames < MaxSawFrames
    /\ \E i \in SawIntensities :
        LET r == saw_gen_set_intensity(sawGen, i) IN
        /\ sawGen' = r.h
        /\ sawRet' = r.ret
        /\ sawSteady' = (sawSteady /\ r.ret # 0)
    /\ UNCHANGED <<sawOut, sawFrames>>

SawProcess ==
    /\ sawGen.alloc
    /\ sawFrames < MaxSawFrames
    /\ LET r == saw_gen_process(sawGen, SawFrameLen) IN
        /\ sawGen' = r.h
        /\ sawOut' = r.out
    /\ sawRet' = 0
    /\ sawFrames' = sawFrames + 1
    /\ UNCHANGED sawSteady

-----------------------------------------------------------------------------
(* 32-bit and 64-bit integer arithmetic on the checker's 32-bit integers *)

Int32Max == (2^30 - 1) + 2^30
Int32Min == -Int32Max - 1

P14 == 2^14
P16 == 2^16
P28 == 2^28

\* a + b in int32_t, wrapping on overflow
Add32(a, b) ==
    IF a >= 0 /\ b >= 0 /\ a > Int32Max - b
    THEN ((a - Int32Max) - 1) + ((b - Int32Max) - 1)
    ELSE IF a < 0 /\ b < 0 /\ a < Int32Min - b
    THEN (a - Int32Min) + (b - Int32Min)
    ELSE a + b

\* a - b in int32_t, wrapping on overflow
Sub32(a, b) ==
    IF b = Int32Min
    THEN (IF a >= 0 THEN a + Int32Min ELSE a - Int32Min)
    ELSE Add32(a, -b)

\* (int32_t)(((int64_t)delta * scale) >> 16) for an int32_t delta and a
\* uint16_t scale: floor(delta * scale / 2^16), computed by limbs
MulShift16(delta, scale) ==
    LET dh == delta \div P16
        dl == delta % P16
        sh == scale \div 256
        sl == scale % 256
    IN  dh * scale + ((dl * sh + ((dl * sl) \div 256)) \div 256)

\* (int64_t)c * x for int32_t c and x, as [hh, hl, lo] with
\* c * x = hh * 2^56 + hl * 2^28 + lo and 0 <= hl, lo < 2^28
Mul64(c, x) ==
    LET c2 == c \div P28
        c1 == (c \div P14) % P14
        c0 == c % P14
        x2 == x \div P28
        x1 == (x \div P14) % P14
        x0 == x % P14
        t0 == c0 * x0
        t1 == c0 * x1 + c1 * x0
        t2 == c0 * x2 + c1 * x1 + c2 * x0
        t3 == c1 * x2 + c2 * x1
        t4 == c2 * x2
        u  == t0 + (t1 % P14) * P14
        v  == (u \div P28) + (t1 \div P14) + t2 + (t3 % P14) * P14
    IN  [hh |-> (v \div P28) + (t3 \div P14) + t4,
         hl |-> v % P28,
         lo |-> u % P28]

\* carries propagated, and the top limb wrapped to the width of int64_t
Norm64(hh, hl, lo) ==
    LET m == hl + (lo \div P28)
        t == hh + (m \div P28)
    IN  [hh |-> ((t + 128) % 256) - 128, hl |-> m % P28, lo |-> lo % P28]

\* a + b - c - d + e over int64_t values in limb form
Sum64(a, b, c, d, e) ==
    Norm64(a.hh + b.hh + c.hh + d.hh + e.hh,
           a.hl + b.hl + c.hl + d.hl + e.hl,
           a.lo + b.lo + c.lo + d.lo + e.lo)

Neg64(a) == [hh |-> -a.hh, hl |-> -a.hl, lo |-> -a.lo]

\* if (acc < 0) acc += (1 << 28) - 1;  (int32_t)(acc >> 28)
\*                                                       (moog.c:824-826)
RoundShift28(acc) ==
    LET r == IF acc.hh < 0
             THEN Norm64(acc.hh, acc.hl, acc.lo + (P28 - 1))
             ELSE acc
    IN  (((r.hh + 8) % 16) - 8) * P28 + r.hl

-----------------------------------------------------------------------------
(* Sine oscillator: sine_gen.c (in saw_gen.c, from line 203) *)

\* saw_gen.c:238-239
INTENSITY_TRANSITION_LEN == 1000
FREQUENCY_TRANSITION_LEN == 256

\* Bounds of the sine model
SineFrameLen  == 64      \* nb_frames of each sine_gen_process call
MaxSineFrames == 8       \* sine_gen_process calls in a run
MaxSineCalls  == 2       \* sine_gen_set_frequency calls in a run

\* Inputs of sine_gen_create and sine_gen_set_frequency.  The frequencies are
\* multiples of fs/8, which makes every phase a multiple of 1/4096 turn.
SineFs          == {48000}
SineF0          == {6000, 12000, 0, 24000, -1}
SineIntensities == {ROne, Rat(1, 2), RZero, Rat(3, 2)}

\* sin(2 * M_PI * k / 4096) * 2^30 for k = 0..1024, as the C library returns
\* it (rounded to the nearest integer); SinQ30[k + 1] is the entry of k
SinQ30 ==
  <<
    0, 1647099, 3294193, 4941281, 6588356, 8235416,
    9882456, 11529474, 13176464, 14823423, 16470347, 18117233,
    19764076, 21410872, 23057618, 24704310, 26350943, 27997515,
    29644021, 31290457, 32936819, 34583104, 36229307, 37875426,
    39521455, 41167391, 42813230, 44458968, 46104602, 47750128,
    49395541, 51040837, 52686014, 54331067, 55975992, 57620785,
    59265442, 60909960, 62554335, 64198563, 65842639, 67486561,
    69130324, 70773924, 72417357, 74060620, 75703709, 77346620,
    78989349, 80631892, 82274245, 83916404, 85558366, 87200127,
    88841683, 90483029, 92124163, 93765079, 95405776, 97046247,
    98686491, 100326502, 101966277, 103605812, 105245103, 106884147,
    108522939, 110161476, 111799753, 113437768, 115075515, 116712992,
    118350194, 119987118, 121623759, 123260114, 124896179, 126531950,
    128167423, 129802595, 131437462, 133072019, 134706263, 136340190,
    137973796, 139607077, 141240030, 142872651, 144504935, 146136880,
    147768480, 149399733, 151030634, 152661180, 154291367, 155921191,
    157550647, 159179733, 160808445, 162436778, 164064728, 165692293,
    167319468, 168946249, 170572633, 172198615, 173824192, 175449360,
    177074115, 178698453, 180322371, 181945865, 183568930, 185191564,
    186813762, 188435520, 190056834, 191677702, 193298119, 194918080,
    196537583, 198156624, 199775198, 201393302, 203010932, 204628085,
    206244756, 207860942, 209476638, 211091842, 212706549, 214320755,
    215934457, 217547651, 219160334, 220772500, 222384147, 223995270,
    225605867, 227215933, 228825464, 230434456, 232042906, 233650811,
    235258165, 236864966, 238471210, 240076892, 241682010, 243286558,
    244890535, 246493935, 248096755, 249698991, 251300640, 252901697,
    254502159, 256102022, 257701283, 259299937, 260897982, 262495412,
    264092224, 265688415, 267283981, 268878918, 270473223, 272066891,
    273659918, 275252302, 276844038, 278435122, 280025552, 281615322,
    283204430, 284792871, 286380643, 287967740, 289554160, 291139898,
    292724951, 294309316, 295892988, 297475964, 299058239, 300639811,
    302220676, 303800829, 305380268, 306958988, 308536985, 310114257,
    311690799, 313266607, 314841679, 316416009, 317989595, 319562433,
    321134518, 322705848, 324276419, 325846226, 327415267, 328983538,
    330551034, 332117752, 333683689, 335248841, 336813204, 338376774,
    339939549, 341501523, 343062693, 344623057, 346182609, 347741347,
    349299266, 350856364, 352412636, 353968079, 355522689, 357076462,
    358629395, 360181484, 361732726, 363283116, 364832652, 366381329,
    367929144, 369476093, 371022173, 372567379, 374111709, 375655159,
    377197725, 378739403, 380280190, 381820082, 383359076, 384897167,
    386434353, 387970630, 389505993, 391040440, 392573967, 394106570,
    395638246, 397168991, 398698801, 400227673, 401755603, 403282588,
    404808624, 406333708, 407857835, 409381002, 410903207, 412424444,
    413944711, 415464004, 416982319, 418499653, 420016002, 421531363,
    423045732, 424559105, 426071480, 427582852, 429093217, 430602573,
    432110916, 433618242, 435124548, 436629829, 438134084, 439637307,
    441139496, 442640647, 444140756, 445639820, 447137835, 448634799,
    450130706, 451625555, 453119340, 454612060, 456103710, 457594286,
    459083786, 460572205, 462059541, 463545789, 465030947, 466515010,
    467997976, 469479840, 470960600, 472440251, 473918791, 475396216,
    476872522, 478347705, 479821764, 481294693, 482766489, 484237150,
    485706671, 487175049, 488642281, 490108363, 491573292, 493037064,
    494499676, 495961124, 497421405, 498880516, 500338453, 501795212,
    503250791, 504705185, 506158392, 507610408, 509061229, 510510853,
    511959275, 513406493, 514852502, 516297300, 517740883, 519183248,
    520624391, 522064309, 523502998, 524940456, 526376678, 527811662,
    529245404, 530677900, 532109148, 533539144, 534967884, 536395365,
    537821584, 539246538, 540670223, 542092635, 543513772, 544933630,
    546352205, 547769495, 549185496, 550600205, 552013618, 553425732,
    554836544, 556246051, 557654248, 559061133, 560466703, 561870954,
    563273883, 564675486, 566075761, 567474703, 568872310, 570268579,
    571663506, 573057087, 574449320, 575840202, 577229728, 578617896,
    580004702, 581390144, 582774218, 584156920, 585538248, 586918198,
    588296766, 589673951, 591049748, 592424154, 593797166, 595168781,
    596538995, 597907806, 599275210, 600641203, 602005783, 603368947,
    604730691, 606091012, 607449906, 608807372, 610163404, 611518001,
    612871159, 614222875, 615573145, 616921967, 618269338, 619615253,
    620959711, 622302707, 623644239, 624984303, 626322897, 627660017,
    628995660, 630329823, 631662503, 632993696, 634323400, 635651611,
    636978327, 638303543, 639627258, 640949467, 642270169, 643589359,
    644907034, 646223192, 647537830, 648850943, 650162530, 651472587,
    652781111, 654088099, 655393548, 656697454, 657999816, 659300629,
    660599890, 661897597, 663193747, 664488336, 665781362, 667072820,
    668362709, 669651026, 670937767, 672222928, 673506508, 674788504,
    676068911, 677347728, 678624950, 679900576, 681174602, 682447025,
    683717842, 684987051, 686254647, 687520629, 688784993, 690047736,
    691308855, 692568348, 693826211, 695082441, 696337036, 697589992,
    698841307, 700090977, 701339000, 702585372, 703830092, 705073155,
    706314559, 707554301, 708792378, 710028787, 711263525, 712496590,
    713727978, 714957687, 716185713, 717412054, 718636707, 719859669,
    721080937, 722300508, 723518380, 724734549, 725949013, 727161768,
    728372813, 729582143, 730789757, 731995651, 733199822, 734402269,
    735602987, 736801974, 737999228, 739194745, 740388522, 741580558,
    742770848, 743959390, 745146182, 746331221, 747514503, 748696026,
    749875788, 751053785, 752230015, 753404474, 754577161, 755748072,
    756917205, 758084557, 759250125, 760413906, 761575898, 762736098,
    763894504, 765051111, 766205919, 767358923, 768510122, 769659512,
    770807092, 771952857, 773096806, 774238936, 775379244, 776517728,
    777654384, 778789210, 779922204, 781053363, 782182683, 783310163,
    784435800, 785559591, 786681534, 787801625, 788919863, 790036244,
    791150767, 792263427, 793374223, 794483153, 795590213, 796695401,
    797798714, 798900150, 799999706, 801097379, 802193167, 803287068,
    804379079, 805469196, 806557419, 807643743, 808728167, 809810688,
    810891304, 811970011, 813046808, 814121692, 815194659, 816265709,
    817334838, 818402043, 819467323, 820530675, 821592095, 822651583,
    823709135, 824764748, 825818421, 826870150, 827919934, 828967769,
    830013654, 831057586, 832099562, 833139580, 834177638, 835213733,
    836247863, 837280024, 838310216, 839338435, 840364679, 841388945,
    842411232, 843431536, 844449856, 845466188, 846480531, 847492882,
    848503239, 849511600, 850517961, 851522321, 852524677, 853525028,
    854523370, 855519701, 856514019, 857506321, 858496606, 859484870,
    860471112, 861455330, 862437520, 863417681, 864395810, 865371905,
    866345964, 867317984, 868287963, 869255900, 870221790, 871185633,
    872147426, 873107167, 874064853, 875020483, 875974054, 876925563,
    877875009, 878822389, 879767701, 880710943, 881652112, 882591207,
    883528225, 884463164, 885396022, 886326796, 887255485, 888182086,
    889106597, 890029016, 890949341, 891867569, 892783698, 893697727,
    894609652, 895519473, 896427186, 897332790, 898236282, 899137661,
    900036924, 900934069, 901829095, 902721998, 903612776, 904501429,
    905387953, 906272347, 907154608, 908034735, 908912725, 909788576,
    910662286, 911533853, 912403276, 913270551, 914135678, 914998653,
    915859476, 916718143, 917574653, 918429004, 919281194, 920131221,
    920979082, 921824777, 922668302, 923509656, 924348837, 925185843,
    926020672, 926853322, 927683790, 928512076, 929338177, 930162092,
    930983817, 931803352, 932620694, 933435842, 934248793, 935059546,
    935868098, 936674448, 937478595, 938280535, 939080267, 939877790,
    940673101, 941466198, 942257081, 943045745, 943832191, 944616416,
    945398418, 946178196, 946955747, 947731070, 948504163, 949275023,
    950043650, 950810042, 951574196, 952336111, 953095785, 953853216,
    954608403, 955361344, 956112036, 956860479, 957606670, 958350608,
    959092290, 959831716, 960568883, 961303790, 962036435, 962766816,
    963494932, 964220780, 964944360, 965665669, 966384706, 967101468,
    967815955, 968528165, 969238095, 969945745, 970651112, 971354196,
    972054994, 972753504, 973449725, 974143656, 974835295, 975524639,
    976211688, 976896441, 977578894, 978259047, 978936898, 979612445,
    980285688, 980956623, 981625251, 982291568, 982955574, 983617267,
    984276646, 984933708, 985588453, 986240879, 986890984, 987538766,
    988184225, 988827359, 989468165, 990106644, 990742793, 991376610,
    992008094, 992637245, 993264059, 993888536, 994510675, 995130473,
    995747930, 996363043, 996975812, 997586236, 998194311, 998800038,
    999403415, 1000004439, 1000603111, 1001199428, 1001793390, 1002384994,
    1002974239, 1003561124, 1004145648, 1004727809, 1005307605, 1005885036,
    1006460100, 1007032796, 1007603122, 1008171077, 1008736660, 1009299870,
    1009860704, 1010419162, 1010975242, 1011528943, 1012080264, 1012629204,
    1013175761, 1013719934, 1014261721, 1014801122, 1015338134, 1015872758,
    1016404991, 1016934832, 1017462281, 1017987335, 1018509994, 1019030256,
    1019548121, 1020063586, 1020576651, 1021087314, 1021595575, 1022101432,
    1022604883, 1023105929, 1023604567, 1024100796, 1024594615, 1025086024,
    1025575020, 1026061603, 1026545772, 1027027525, 1027506862, 1027983780,
    1028458280, 1028930359, 1029400018, 1029867254, 1030332067, 1030794455,
    1031254418, 1031711954, 1032167062, 1032619742, 1033069992, 1033517810,
    1033963197, 1034406151, 1034846671, 1035284755, 1035720404, 1036153615,
    1036584389, 1037012723, 1037438617, 1037862069, 1038283080, 1038701647,
    1039117770, 1039531448, 1039942680, 1040351465, 1040757802, 1041161689,
    1041563127, 1041962114, 1042358649, 1042752731, 1043144360, 1043533534,
    1043920252, 1044304514, 1044686319, 1045065665, 1045442553, 1045816980,
    1046188946, 1046558451, 1046925492, 1047290071, 1047652185, 1048011834,
    1048369016, 1048723732, 1049075980, 1049425759, 1049773069, 1050117909,
    1050460278, 1050800175, 1051137599, 1051472550, 1051805027, 1052135029,
    1052462555, 1052787604, 1053110176, 1053430270, 1053747885, 1054063021,
    1054375676, 1054685850, 1054993543, 1055298753, 1055601479, 1055901722,
    1056199480, 1056494753, 1056787540, 1057077840, 1057365653, 1057650977,
    1057933813, 1058214159, 1058492016, 1058767381, 1059040255, 1059310638,
    1059578527, 1059843923, 1060106826, 1060367233, 1060625146, 1060880563,
    1061133483, 1061383907, 1061631833, 1061877261, 1062120190, 1062360620,
    1062598550, 1062833980, 1063066909, 1063297336, 1063525261, 1063750684,
    1063973603, 1064194019, 1064411931, 1064627338, 1064840240, 1065050636,
    1065258526, 1065463909, 1065666786, 1065867154, 1066065015, 1066260367,
    1066453210, 1066643544, 1066831367, 1067016680, 1067199483, 1067379774,
    1067557554, 1067732821, 1067905576, 1068075818, 1068243547, 1068408763,
    1068571464, 1068731650, 1068889322, 1069044479, 1069197120, 1069347245,
    1069494854, 1069639946, 1069782521, 1069922579, 1070060120, 1070195142,
    1070327646, 1070457632, 1070585099, 1070710046, 1070832474, 1070952382,
    1071069770, 1071184638, 1071296985, 1071406812, 1071514117, 1071618901,
    1071721163, 1071820903, 1071918122, 1072012818, 1072104991, 1072194642,
    1072281769, 1072366374, 1072448455, 1072528012, 1072605046, 1072679556,
    1072751542, 1072821003, 1072887940, 1072952352, 1073014240, 1073073603,
    1073130440, 1073184753, 1073236540, 1073285802, 1073332538, 1073376748,
    1073418433, 1073457592, 1073494225, 1073528332, 1073559913, 1073588967,
    1073615496, 1073639498, 1073660973, 1073679922, 1073696345, 1073710241,
    1073721611, 1073730454, 1073736771, 1073740561, 1073741824
  >>

\* sin of k/4096 turn, in units of 2^-30
sin_q30(k) ==
    LET q == (k % 4096) \div 1024
        r == k % 1024
    IN  CASE q = 0 -> SinQ30[r + 1]
          [] q = 1 -> SinQ30[(1024 - r) + 1]
          [] q = 2 -> -SinQ30[r + 1]
          [] q = 3 -> -SinQ30[(1024 - r) + 1]

\* floor(QS823_MAX * s / 2^30) for 0 <= s <= 2^30
sine_amplitude(s) ==
    LET p == Mul64(QS823_MAX, s) IN p.hh * 2^26 + (p.hl \div 4)

\* (int32_t)(QS823_MAX * intensity * sin(2 * M_PI * phase / fs))
\*                                                  (saw_gen.c:471-472, 512)
\* The phase p256 is in units of 1/256 Hz, reduced to one turn.
sine_value(intensity, p256, fs) ==
    LET s == sin_q30(((p256 % (256 * fs)) * 16) \div fs)
    IN  (IF s < 0 THEN -1 ELSE 1)
            * ScaleDown(sine_amplitude(Abs(s)), intensity.n, intensity.d)

\* index * f0 for the uint64_t index, in units of 1/256 Hz within one turn
sine_phase(h) == 256 * ((h.index * h.f0) % h.fs)

ZeroPhase == [i \in 1..FREQUENCY_TRANSITION_LEN |-> 0]

NullSine ==
    [alloc |-> FALSE, fs |-> 0, f0 |-> 0, index |-> 0, intensity |-> RZero,
     intensity_delta |-> RZero, intensity_transition |-> 0,
     intensity_transition_index |-> 0,
     ascending |-> 0, prev_sign |-> 0, sign_change |-> 0, prev_out |-> 0,
     new_f0 |-> 0, frequency_transition |-> 0,
     frequency_transition_start |-> 0, frequency_transition_index |-> 0,
     frequency_transition_phase |-> ZeroPhase]

\* sine_gen_create (saw_gen.c:271-299): calloc zeroes every other field
sine_gen_create(p) ==
    IF \/ p.fs < 0
       \/ p.f0 < 0
       \/ 2 * p.f0 >= p.fs
       \/ RLt(p.intensity, RZero)
       \/ RLt(ROne, p.intensity)
    THEN NullSine
    ELSE [NullSine EXCEPT !.alloc = TRUE, !.f0 = p.f0, !.fs = p.fs,
                          !.intensity = p.intensity, !.index = 0]

\* the loop filling frequency_transition_phase (saw_gen.c:355-360), in units
\* of 1/256 Hz: with delta * 256 = f0 - h.f0, entry 0 is h.f0 and entry i is
\* entry i-1 plus h.f0 + i * delta, which sums to
\* (i + 1) * h.f0 + delta * i * (i + 1) / 2.  Entry i is element i + 1.
transition_phase(cur_f0, f0) ==
    [k \in 1..FREQUENCY_TRANSITION_LEN |->
        256 * cur_f0 * k + (f0 - cur_f0) * (((k - 1) * k) \div 2)]

\* mutant: a request made during a transition restarts it
sine_gen_set_frequency_restart(h, f0) ==
    IF ~h.alloc \/ f0 < 0 \/ 2 * f0 >= h.fs
    THEN [ret |-> -EINVAL, h |-> h]
    ELSE IF h.f0 = 0
    THEN [ret |-> 0, h |-> [h EXCEPT !.f0 = f0]]
    ELSE [ret |-> 0,
          h |-> [h EXCEPT
                   !.frequency_transition_phase =
                       transition_phase(h.f0, f0),
                   !.new_f0 = f0,
                   !.frequency_transition = 1,
                   !.frequency_transition_start = 0,
                   !.frequency_transition_index = 0]]

\* sine_gen_set_frequency (saw_gen.c:333-370): [ret, h]
sine_gen_set_frequency(h, f0) ==
    IF ~h.alloc \/ f0 < 0 \/ 2 * f0 >= h.fs
    THEN [ret |-> -EINVAL, h |-> h]
    ELSE IF h.f0 = 0
    THEN [ret |-> 0, h |-> [h EXCEPT !.f0 = f0]]
    ELSE IF h.frequency_transition # 0
    THEN [ret |-> -EAGAIN, h |-> h]
    ELSE [ret |-> 0,
          h |-> [h EXCEPT
                   !.frequency_transition_phase =
                       transition_phase(h.f0, f0),
                   !.new_f0 = f0,
                   !.frequency_transition = 1,
                   !.frequency_transition_start = 0,
                   !.frequency_transition_index = 0]]

\* sine_gen_set_intensity (saw_gen.c:391-409): [ret, h]
sine_gen_set_intensity(h, intensity) ==
    IF ~h.alloc \/ RLt(intensity, RZero) \/ RLt(ROne, intensity)
    THEN [ret |-> -EINVAL, h |-> h]
    ELSE [ret |-> 0,
          h |-> [h EXCEPT
                   !.intensity_transition = 1,
                   !.intensity_delta =
                       RMul(RSub(intensity, h.intensity),
                            Rat(1, INTENSITY_TRANSITION_LEN)),
                   !.intensity_transition_index = 0]]

\* the amplitude transition of one sample (saw_gen.c:428-436)
sine_intensity_step(h) ==
    IF h.intensity_transition = 0
    THEN h
    ELSE IF h.intensity_transition_index + 1 = INTENSITY_TRANSITION_LEN
    THEN [h EXCEPT !.intensity = RAdd(h.intensity, h.intensity_delta),
                   !.intensity_transition = 0,
                   !.intensity_delta = RZero,
                   !.intensity_transition_index = 0]
    ELSE [h EXCEPT !.intensity = RAdd(h.intensity, h.intensity_delta),
                   !.intensity_transition_index =
                       h.intensity_transition_index + 1]

\* one iteration of the search (saw_gen.c:470-498) for the value tmp of the
\* new sine at index j: [local_ascending, delta_min, index] after it
sine_best_step(h, j, tmp, prev_tmp, local_ascending, delta_min, index) ==
    LET la == IF j = 0 THEN local_ascending
              ELSE IF tmp > prev_tmp THEN 1 ELSE 0
    IN  IF /\ (h.ascending # 0 /\ la # 0) \/ (h.ascending = 0 /\ la = 0)
           /\ Abs(tmp - h.prev_out) < delta_min
        THEN [local_ascending |-> la, delta_min |-> Abs(tmp - h.prev_out),
              index |-> j]
        ELSE [local_ascending |-> la, delta_min |-> delta_min,
              index |-> index]

\* the search for the best new index (saw_gen.c:467-499): the value of
\* `index` after the iterations j..period-1 of the loop.  h.f0 is the new
\* frequency already.
RECURSIVE sine_best_index(_, _, _, _, _, _, _)
sine_best_index(h, j, period, prev_tmp, local_ascending, delta_min, index) ==
    IF j >= period
    THEN index
    ELSE Then(sine_value(h.intensity, 256 * ((j * h.f0) % h.fs), h.fs),
              LAMBDA tmp :
         Then(sine_best_step(h, j, tmp, prev_tmp, local_ascending, delta_min,
                             index), LAMBDA s :
              sine_best_index(h, j + 1, period, tmp, s.local_ascending,
                              s.delta_min, s.index)))

\* period = fs / f0 converted to int (saw_gen.c:467).  With f0 = 0 the
\* quotient is infinite and its conversion undefined; whether the loop then
\* runs no iteration (INT_MIN) or INT_MAX iterations of tmp = 0, `index`
\* stays 0.
sine_period(h) == IF h.f0 = 0 THEN 0 ELSE h.fs \div h.f0

\* end of a frequency transition (saw_gen.c:454-500)
sine_transition_end(h) ==
    LET g == [h EXCEPT !.f0 = h.new_f0,
                       !.new_f0 = 0,
                       !.frequency_transition = 0,
                       !.frequency_transition_index = 0,
                       !.frequency_transition_start = 0,
                       !.frequency_transition_phase = ZeroPhase]
    IN  [g EXCEPT !.index =
            sine_best_index(g, 0, sine_period(g), 0, 0, QS823_MAX, 0) + 1]

\* mutant: the transition starts after any sign change, descending included
sine_frequency_step_any_sign(h) ==
    LET s == IF /\ h.frequency_transition # 0
                /\ h.frequency_transition_start = 0
                /\ h.sign_change # 0
             THEN [h EXCEPT !.frequency_transition_start = 1]
             ELSE h
    IN  IF s.frequency_transition # 0 /\ s.frequency_transition_start # 0
        THEN LET phase == s.frequency_transition_phase
                              [s.frequency_transition_index + 1]
             IN  IF s.frequency_transition_index + 1 = FREQUENCY_TRANSITION_LEN
                 THEN [h |-> sine_transition_end(s), phase |-> phase]
                 ELSE [h |-> [s EXCEPT !.frequency_transition_index =
                                         s.frequency_transition_index + 1],
                       phase |-> phase]
        ELSE [h |-> [s EXCEPT !.index = s.index + 1],
              phase |-> sine_phase(s)]

\* the frequency transition of one sample (saw_gen.c:439-510): [h, phase]
sine_frequency_step(h) ==
    LET s == IF /\ h.frequency_transition # 0
                /\ h.frequency_transition_start = 0
                /\ h.sign_change # 0
                /\ h.ascending # 0
             THEN [h EXCEPT !.frequency_transition_start = 1]
             ELSE h
    IN  IF s.frequency_transition # 0 /\ s.frequency_transition_start # 0
        THEN LET phase == s.frequency_transition_phase
                              [s.frequency_transition_index + 1]
             IN  IF s.frequency_transition_index + 1 = FREQUENCY_TRANSITION_LEN
                 THEN [h |-> sine_transition_end(s), phase |-> phase]
                 ELSE [h |-> [s EXCEPT !.frequency_transition_index =
                                         s.frequency_transition_index + 1],
                       phase |-> phase]
        ELSE [h |-> [s EXCEPT !.index = s.index + 1],
              phase |-> sine_phase(s)]

\* update of the trackers after out[i] (saw_gen.c:514-527)
sine_track(h, out) ==
    LET sign == IF out >= 0 THEN 1 ELSE -1 IN
    [h EXCEPT !.prev_sign = sign,
              !.sign_change = IF sign # h.prev_sign THEN 1 ELSE 0,
              !.ascending = IF out > h.prev_out THEN 1 ELSE 0,
              !.prev_out = out]

\* one iteration of the loop of sine_gen_process (saw_gen.c:425-528):
\* [h, out]
sine_sample(h) ==
    Then(sine_frequency_step(sine_intensity_step(h)), LAMBDA f :
    Then(sine_value(f.h.intensity, f.phase, f.h.fs), LAMBDA out :
         [h |-> sine_track(f.h, out), out |-> out]))

\* sine_gen_process (saw_gen.c:412-533): [h, out] after nb_frames samples.
\* The loop is unfolded by halves: the first half of the samples, then the
\* rest from the handle the first half leaves.
RECURSIVE sine_gen_process(_, _)
sine_gen_process(h, nb_frames) ==
    IF nb_frames <= 0
    THEN [h |-> h, out |-> << >>]
    ELSE IF nb_frames = 1
    THEN Then(sine_sample(h), LAMBDA s : [h |-> s.h, out |-> <<s.out>>])
    ELSE Then(sine_gen_process(h, nb_frames \div 2), LAMBDA a :
         Then(sine_gen_process(a.h, nb_frames - (nb_frames \div 2)), LAMBDA b :
              [h |-> b.h, out |-> a.out \o b.out]))

NoSineCall == [f0 |-> -1, ret |-> 0, pre |-> NullSine, frames |-> 0]

SineParams == [fs : SineFs, f0 : SineF0, intensity : SineIntensities]

InitSineVars ==
    /\ \E p \in SineParams : sineGen = sine_gen_create(p)
    /\ sineCall = NoSineCall
    /\ sineOut = << >>
    /\ sineFrames = 0
    /\ sineCalls = 0

IdleSineVars ==
    /\ sineGen = NullSine
    /\ sineCall = NoSineCall
    /\ sineOut = << >>
    /\ sineFrames = 0
    /\ sineCalls = 0

\* One call sine_gen_set_frequency(handle, f0)
SineSetFrequency ==
    /\ sineCalls < MaxSineCalls
    /\ \E f0 \in SineF0 :
        LET r == sine_gen_set_frequency(sineGen, f0) IN
        /\ sineGen' = r.h
        /\ sineCall' = [f0 |-> f0, ret |-> r.ret, pre |-> sineGen,
                        frames |-> sineFrames]
    /\ sineCalls' = sineCalls + 1
    /\ UNCHANGED <<sineOut, sineFrames>>

\* One call sine_gen_process(handle, SineFrameLen, out)
SineProcess ==
    /\ sineGen.alloc
    /\ sineFrames < MaxSineFrames
    /\ \E r \in {sine_gen_process(sineGen, SineFrameLen)} :
        /\ sineGen' = r.h
        /\ sineOut' = r.out
    /\ sineFrames' = sineFrames + 1
    /\ UNCHANGED <<sineCall, sineCalls>>

\* Sample-by-sample runs: one request, made within the first MaxRequestAt
\* samples, and sine_gen_process calls of one sample
MaxSineSamples == 280
MaxRequestAt   == 8

InitSmpVars == sineStart = -1

IdleSmpVars == sineStart = -1

\* One call sine_gen_set_frequency(handle, f0), the only one of the run
SineRequest ==
    /\ sineGen.alloc
    /\ sineCalls = 0
    /\ sineFrames <= MaxRequestAt
    /\ \E f0 \in SineF0 :
        \E r \in {sine_gen_set_frequency(sineGen, f0)} :
            /\ sineGen' = r.h
            /\ sineCall' = [f0 |-> f0, ret |-> r.ret, pre |-> sineGen,
                            frames |-> sineFrames]
    /\ sineCalls' = sineCalls + 1
    /\ UNCHANGED <<sineOut, sineFrames, sineStart>>

\* One call sine_gen_process(handle, 1, out)
SineSample ==
    /\ sineGen.alloc
    /\ sineFrames < MaxSineSamples
    /\ \E r \in {sine_gen_process(sineGen, 1)} :
        /\ sineGen' = r.h
        /\ sineOut' = r.out
        /\ sineStart' =
               IF r.h.frequency_transition = 0
               THEN -1
               ELSE IF /\ sineGen.frequency_transition_start = 0
                       /\ r.h.frequency_transition_start # 0
               THEN sineFrames
               ELSE sineStart
    /\ sineFrames' = sineFrames + 1
    /\ UNCHANGED <<sineCall, sineCalls>>

\* Continued processing: the caller goes on calling sine_gen_process.  The
\* step that counts one more sample is the step of SineSample, and it is
\* possible whenever SineSample is.
SineContinues ==
    /\ sineGen.alloc
    /\ sineFrames < MaxSineSamples
    /\ sineFrames' = sineFrames + 1

-----------------------------------------------------------------------------
(* IEEE floats that can become infinite or NaN: the cutoff frequencies      *)

FNum(v)  == [k |-> "num", v |-> v]
FPosInf  == [k |-> "inf", v |-> 1]
FNegInf  == [k |-> "inf", v |-> -1]
FNaN     == [k |-> "nan", v |-> 0]

\* a <= n and a >= n / 2 for an integer n (false on NaN)
FLeInt(a, n) ==
    CASE a.k = "num" -> a.v <= n
      [] a.k = "inf" -> a.v < 0
      [] a.k = "nan" -> FALSE

FGeHalf(a, n) ==
    CASE a.k = "num" -> 2 * a.v >= n
      [] a.k = "inf" -> a.v > 0
      [] a.k = "nan" -> FALSE

FAdd(a, b) ==
    CASE a.k = "nan" \/ b.k = "nan" -> FNaN
      [] a.k = "inf" /\ b.k = "inf" -> IF a.v = b.v THEN a ELSE FNaN
      [] a.k = "inf" -> a
      [] b.k = "inf" -> b
      [] OTHER -> FNum(a.v + b.v)

FNeg(a) == IF a.k = "nan" THEN a ELSE [a EXCEPT !.v = -a.v]

\* a / n for an int n >= 0 converted to float.  The inputs of the model make
\* every finite quotient a whole number.
FDivInt(a, n) ==
    CASE a.k = "nan" -> FNaN
      [] a.k = "inf" -> a
      [] n = 0 -> IF a.v > 0 THEN FPosInf
                  ELSE IF a.v < 0 THEN FNegInf ELSE FNaN
      [] OTHER -> FNum(a.v \div n)

-----------------------------------------------------------------------------
(* Low-pass filter: low_pass.c (in moog.c, from line 420) *)

\* moog.c:457-458
TABLE_LEN   == 256
TABLE_SCALE == 16

\* Bounds of the filter model
MaxLpSamples == 520      \* samples processed in a run
MaxLpCalls   == 2        \* low_pass_update / low_pass_start_fc_sweep calls
LpCallPeriod == 256      \* the calls are made every LpCallPeriod samples

\* (int32_t) of a NaN double is undefined: what the conversion may produce
NanToInt32 == {Int32Min, 0}

\* BQ_DOUBLE_2_QS328 of the five coefficients that low_pass_design computes
\* in double precision, for fs = 48000 and fc = 100, 200, ..., 2000 Hz
\* (entry fc / 100), as b0, b1, b2, a1, a2
transition_table ==
    <<    0,   256,   512,   768,  1024,  1280,  1536,  1792,
       2048,  2304,  2560,  2816,  3072,  3328,  3584,  3840,
       4096,  4352,  4608,  4864,  5120,  5376,  5632,  5888,
       6144,  6400,  6656,  6912,  7168,  7424,  7680,  7936,
       8192,  8448,  8704,  8960,  9216,  9472,  9728,  9984,
      10240, 10496, 10752, 11008, 11264, 11520, 11776, 12032,
      12288, 12544, 12800, 13056, 13312, 13568, 13824, 14080,
      14336, 14592, 14848, 15104, 15360, 15616, 15872, 16128,
      16384, 16640, 16896, 17152, 17408, 17664, 17920, 18176,
      18432, 18688, 18944, 19200, 19456, 19712, 19968, 20224,
      20480, 20736, 20992, 21248, 21504, 21760, 22016, 22272,
      22528, 22784, 23040, 23296, 23552, 23808, 24064, 24320,
      24576, 24832, 25088, 25344, 25600, 25856, 26112, 26368,
      26624, 26880, 27136, 27392, 27648, 27904, 28160, 28416,
      28672, 28928, 29184, 29440, 29696, 29952, 30208, 30464,
      30720, 30976, 31232, 31488, 31744, 32000, 32256, 32512,
      32768, 33024, 33280, 33536, 33792, 34048, 34304, 34560,
      34816, 35072, 35328, 35584, 35840, 36096, 36352, 36608,
      36864, 37120, 37376, 37632, 37888, 38144, 38400, 38656,
      38912, 39168, 39424, 39680, 39936, 40192, 40448, 40704,
      40960, 41216, 41472, 41728, 41984, 42240, 42496, 42752,
      43008, 43264, 43520, 43776, 44032, 44288, 44544, 44800,
      45056, 45312, 45568, 45824, 46080, 46336, 46592, 46848,
      47104, 47360, 47616, 47872, 48128, 48384, 48640, 48896,
      49152, 49408, 49664, 49920, 50176, 50432, 50688, 50944,
      51200, 51456, 51712, 51968, 52224, 52480, 52736, 52992,
      53248, 53504, 53760, 54016, 54272, 54528, 54784, 55040,
      55296, 55552, 55808, 56064, 56320, 56576, 56832, 57088,
      57344, 57600, 57856, 58112, 58368, 58624, 58880, 59136,
      59392, 59648, 59904, 60160, 60416, 60672, 60928, 61184,
      61440, 61696, 61952, 62208, 62464, 62720, 62976, 63232,
      63488, 63744, 64000, 64256, 64512, 64768, 65024, 65280>>

DesignQ15 ==
    <<<<11449, 22898, 11449, -534492819, 266103158>>,
      <<45595, 91190, 45595, -532044506, 263791431>>,
      <<102140, 204281, 102140, -529527289, 261500395>>,
      <<180787, 361574, 180787, -526942470, 259230161>>,
      <<281239, 562478, 281239, -524291332, 256980833>>,
      <<403203, 806407, 403203, -521575147, 254752505>>,
      <<546388, 1092776, 546388, -518795167, 252545263>>,
      <<710503, 1421006, 710503, -515952632, 250359187>>,
      <<895260, 1790521, 895260, -513048763, 248194348>>,
      <<1100375, 2200751, 1100375, -510084766, 246050812>>,
      <<1325564, 2651129, 1325564, -507061832, 243928634>>,
      <<1570547, 3141094, 1570547, -503981134, 241827866>>,
      <<1835045, 3670090, 1835045, -500843829, 239748553>>,
      <<2118782, 4237565, 2118782, -497651058, 237690732>>,
      <<2421486, 4842973, 2421486, -494403946, 235654436>>,
      <<2742887, 5485773, 2742887, -491103601, 233639692>>,
      <<3082715, 6165431, 3082715, -487751114, 231646520>>,
      <<3440707, 6881415, 3440707, -484347562, 229674935>>,
      <<3816601, 7633202, 3816601, -480894002, 227724950>>,
      <<4210137, 8420274, 4210137, -477391477, 225796569>>>>

DesignQ30 ==
    <<<<11474, 22947, 11474, -535656330, 267266768>>,
      <<45793, 91587, 45793, -534355640, 266103357>>,
      <<102804, 205609, 102804, -532969622, 264945384>>,
      <<182350, 364700, 182350, -531499064, 263793008>>,
      <<284272, 568543, 284272, -529944756, 262646387>>,
      <<408408, 816816, 408408, -528307497, 261505672>>,
      <<554595, 1109191, 554595, -526588089, 260371015>>,
      <<722669, 1445338, 722669, -524787341, 259242561>>,
      <<912461, 1824922, 912461, -522906065, 258120454>>,
      <<1123804, 2247607, 1123804, -520945077, 257004836>>,
      <<1356525, 2713051, 1356525, -518905198, 255895844>>,
      <<1610455, 3220909, 1610455, -516787251, 254793613>>,
      <<1885417, 3770834, 1885417, -514592062, 253698275>>,
      <<2181238, 4362477, 2181238, -512320461, 252609959>>,
      <<2497742, 4995484, 2497742, -509973279, 251528791>>,
      <<2834750, 5669500, 2834750, -507551351, 250454894>>,
      <<3192084, 6384167, 3192084, -505055512, 249388390>>,
      <<3569564, 7139127, 3569564, -502486598, 248329396>>,
      <<3967009, 7934017, 3967009, -499845449, 247278027>>,
      <<4384237, 8768475, 4384237, -497132902, 246234396>>>>

Coeffs(t) == [b0 |-> t[1], b1 |-> t[2], b2 |-> t[3], a1 |-> t[4], a2 |-> t[5]]

ZeroCoeffs == Coeffs(<<0, 0, 0, 0, 0>>)

\* Inputs: struct low_pass_params for low_pass_create and low_pass_update,
\* (new_fc, nb_samples) for low_pass_start_fc_sweep
LpParams(fc, Q, fs) == [Q |-> Q, gain |-> ROne, fc |-> FNum(fc), fs |-> fs]

LpCreateInputs ==
    {LpParams(400, Rat(3, 2), 48000), LpParams(400, RZero, 48000),
     LpParams(24000, Rat(3, 2), 48000)}

LpUpdateInputs ==
    {LpParams(1000, Rat(3, 2), 48000), LpParams(400, Rat(3, 1), 48000),
     LpParams(0, Rat(3, 2), 48000), LpParams(24000, Rat(3, 2), 48000),
     LpParams(1000, RZero, 48000), LpParams(1000, Rat(3, 2), 0)}

LpSweepInputs ==
    {<<1000, 256>>, <<1000, 520>>, <<1000, 100>>, <<400, 100>>,
     <<0, 256>>, <<24000, 256>>, <<1000, 0>>}

\* the samples fed to the filter: a square wave of 16 samples per period
LpInput(n) == IF (n \div 8) % 2 = 0 THEN 4194304 ELSE -4194304

NullLp ==
    [alloc |-> FALSE, x1 |-> 0, x2 |-> 0, y1 |-> 0, y2 |-> 0,
     sweep_fc |-> FNum(0), sweep_flag |-> 0, sweep_index |-> 0,
     sweep_length |-> 0, sweep_step |-> FNum(0),
     table_index |-> 0, update_flag |-> 0,
     coeffs |-> ZeroCoeffs,
     parameters |-> [Q |-> RZero, gain |-> RZero, fc |-> FNum(0), fs |-> 0],
     new_coeffs |-> ZeroCoeffs]

\* mutant: the quality factor is not checked
low_pass_design_anyQ(params) ==
    IF \/ params.fs <= 0
       \/ FGeHalf(params.fc, params.fs)
       \/ FLeInt(params.fc, 0)
    THEN -EINVAL
    ELSE 0

\* low_pass_design, the parameter check (moog.c:546-553): its result
low_pass_design(params) ==
    IF \/ RLe(params.Q, RZero)
       \/ params.fs <= 0
       \/ FGeHalf(params.fc, params.fs)
       \/ FLeInt(params.fc, 0)
    THEN -EINVAL
    ELSE 0

\* BQ_DOUBLE_2_QS328 (moog.c:454) of n / d, 0 <= n <= d:
\* (int32_t)(val * 2^28 + 0.5), that is val * 2^28 rounded to nearest
BQ_DOUBLE_2_QS328(n, d) == (ScaleDown(536870912, n, d) + 1) \div 2

\* low_pass_design at fc = fs / 4 (moog.c:555-564): k = tan(pi / 4) = 1, so
\* a0 = 2Q + 1, b0 = b2 = Q / a0, b1 = 2Q / a0, a1 = 0 and
\* a2 = (2Q - 1) / a0; with Q = n / d these are quotients by 2n + d.  A
\* negative value is converted as (int32_t)(val * 2^28 - 0.5).
design_quarter(Q) ==
    Coeffs(<<BQ_DOUBLE_2_QS328(Q.n, 2 * Q.n + Q.d),
             BQ_DOUBLE_2_QS328(2 * Q.n, 2 * Q.n + Q.d),
             BQ_DOUBLE_2_QS328(Q.n, 2 * Q.n + Q.d),
             0,
             IF 2 * Q.n >= Q.d
             THEN BQ_DOUBLE_2_QS328(2 * Q.n - Q.d, 2 * Q.n + Q.d)
             ELSE -BQ_DOUBLE_2_QS328(Q.d - 2 * Q.n, 2 * Q.n + Q.d)>>)

\* low_pass_design, the coefficients (moog.c:555-564), converted by
\* BQ_DOUBLE_2_QS328 (moog.c:454).  With a NaN cutoff every coefficient is
\* NaN and its conversion yields ub.
DesignedQs328(params, ub) ==
    IF params.fc.k = "nan"
    THEN Coeffs(<<ub, ub, ub, ub, ub>>)
    ELSE IF 4 * params.fc.v = params.fs
    THEN design_quarter(params.Q)
    ELSE IF params.Q = Rat(3, 2)
    THEN Coeffs(DesignQ15[params.fc.v \div 100])
    ELSE Coeffs(DesignQ30[params.fc.v \div 100])

\* mutant: the gain scales the coefficient b0
low_pass_feed_gain(h, params, update, ub) ==
    LET c == DesignedQs328(params, ub)
        g == IF params.fc.k = "nan"
             THEN c
             ELSE [c EXCEPT !.b0 = RTrunc(RMul(params.gain, Rat(c.b0, 1)))]
    IN  IF update # 0
        THEN [h EXCEPT !.new_coeffs = g]
        ELSE [h EXCEPT !.coeffs = g]

\* low_pass_feed (moog.c:573-593)
low_pass_feed(h, params, update, ub) ==
    IF update # 0
    THEN [h EXCEPT !.new_coeffs = DesignedQs328(params, ub)]
    ELSE [h EXCEPT !.coeffs = DesignedQs328(params, ub)]

\* the parameters low_pass_sweep_update designs for (moog.c:603-613)
sweep_new_params(h) ==
    IF h.sweep_index + 1 = h.sweep_length
    THEN [h.parameters EXCEPT !.fc = h.sweep_fc]
    ELSE [h.parameters EXCEPT !.fc = FAdd(h.parameters.fc, h.sweep_step)]

\* low_pass_sweep_update (moog.c:596-631)
low_pass_sweep_update(h, ub) ==
    LET new_params == sweep_new_params(h)
        h1 == [h EXCEPT !.sweep_index = h.sweep_index + 1,
                        !.sweep_flag = IF h.sweep_index + 1 = h.sweep_length
                                       THEN 0 ELSE h.sweep_flag]
    IN  IF low_pass_design(new_params) # 0
        THEN h1
        ELSE [low_pass_feed(h1, new_params, 1, ub)
                 EXCEPT !.table_index = 0,
                        !.update_flag = 1,
                        !.parameters = new_params]

\* one coefficient of low_pass_update_coeffs (moog.c:641-651):
\* coeff += (int32_t)(((int64_t)delta * scale) >> TABLE_SCALE), 2^16 = P16
interpolate(new, cur, scale) ==
    Add32(cur, MulShift16(Sub32(new, cur), scale))

\* mutant: the crossfade ends on the last interpolated coefficients
low_pass_update_coeffs_nocopy(h, ub) ==
    LET scale == transition_table[h.table_index + 1]
        h1 == [h EXCEPT
                 !.coeffs = [c \in DOMAIN h.coeffs |->
                               interpolate(h.new_coeffs[c], h.coeffs[c], scale)],
                 !.table_index = h.table_index + 1]
    IN  IF h1.table_index = TABLE_LEN
        THEN LET h2 == [h1 EXCEPT !.update_flag = 0]
             IN  IF h2.sweep_flag # 0
                 THEN low_pass_sweep_update(h2, ub)
                 ELSE h2
        ELSE h1

\* low_pass_update_coeffs (moog.c:635-665)
low_pass_update_coeffs(h, ub) ==
    LET scale == transition_table[h.table_index + 1]
        h1 == [h EXCEPT
                 !.coeffs = [c \in DOMAIN h.coeffs |->
                               interpolate(h.new_coeffs[c], h.coeffs[c], scale)],
                 !.table_index = h.table_index + 1]
    IN  IF h1.table_index = TABLE_LEN
        THEN LET h2 == [h1 EXCEPT !.coeffs = h1.new_coeffs,
                                  !.update_flag = 0]
             IN  IF h2.sweep_flag # 0
                 THEN low_pass_sweep_update(h2, ub)
                 ELSE h2
        ELSE h1

\* low_pass_create (moog.c:668-694)
low_pass_create(params) ==
    IF low_pass_design(params) # 0
    THEN NullLp
    ELSE [low_pass_feed([NullLp EXCEPT !.alloc = TRUE], params, 0, 0)
             EXCEPT !.parameters = params]

\* mutant: the update is not refused during a sweep
low_pass_update_unguarded(h, new_params, ub) ==
    IF ~h.alloc
    THEN [ret |-> -EINVAL, h |-> h]
    ELSE IF low_pass_design(new_params) # 0
    THEN [ret |-> -EINVAL, h |-> h]
    ELSE [ret |-> 0,
          h |-> [low_pass_feed(h, new_params, 1, ub)
                    EXCEPT !.table_index = 0,
                           !.update_flag = 1,
                           !.parameters = new_params]]

\* mutant: the crossfade index is not restarted
low_pass_update_noreset(h, new_params, ub) ==
    IF ~h.alloc
    THEN [ret |-> -EINVAL, h |-> h]
    ELSE IF h.sweep_flag # 0
    THEN [ret |-> -EAGAIN, h |-> h]
    ELSE IF low_pass_design(new_params) # 0
    THEN [ret |-> -EINVAL, h |-> h]
    ELSE [ret |-> 0,
          h |-> [low_pass_feed(h, new_params, 1, ub)
                    EXCEPT !.update_flag = 1,
                           !.parameters = new_params]]

\* low_pass_update (moog.c:711-743): [ret, h]
low_pass_update(h, new_params, ub) ==
    IF ~h.alloc
    THEN [ret |-> -EINVAL, h |-> h]
    ELSE IF h.sweep_flag # 0
    THEN [ret |-> -EAGAIN, h |-> h]
    ELSE IF low_pass_design(new_params) # 0
    THEN [ret |-> -EINVAL, h |-> h]
    ELSE [ret |-> 0,
          h |-> [low_pass_feed(h, new_params, 1, ub)
                    EXCEPT !.table_index = 0,
                           !.update_flag = 1,
                           !.parameters = new_params]]

\* low_pass_get_parameters (moog.c:746-760)
low_pass_get_parameters(h) == h.parameters

\* low_pass_start_fc_sweep (moog.c:763-792): [ret, h]
low_pass_start_fc_sweep(h, new_fc, nb_samples, ub) ==
    IF \/ ~h.alloc
       \/ new_fc <= 0
       \/ 2 * new_fc >= h.parameters.fs
       \/ nb_samples <= 0
    THEN [ret |-> -EINVAL, h |-> h]
    ELSE IF h.sweep_flag # 0
    THEN [ret |-> -EAGAIN, h |-> h]
    ELSE LET h1 == [h EXCEPT
                      !.sweep_fc = FNum(new_fc),
                      !.sweep_flag = 1,
                      !.sweep_index = 0,
                      !.sweep_length = nb_samples \div TABLE_LEN,
                      !.sweep_step =
                          FDivInt(FAdd(FNum(new_fc), FNeg(h.parameters.fc)),
                                  nb_samples \div TABLE_LEN)]
         IN  [ret |-> 0, h |-> low_pass_sweep_update(h1, ub)]

\* one iteration of the loop of low_pass_process (moog.c:807-830):
\* [h, out] for the input sample in
low_pass_process(h, in, ub) ==
    LET h1 == IF h.update_flag # 0 THEN low_pass_update_coeffs(h, ub) ELSE h
        acc == Sum64(Mul64(h1.coeffs.b0, in),
                     Mul64(h1.coeffs.b1, h1.x1),
                     Mul64(h1.coeffs.b2, h1.x2),
                     Neg64(Mul64(h1.coeffs.a1, h1.y1)),
                     Neg64(Mul64(h1.coeffs.a2, h1.y2)))
        y == RoundShift28(acc)
    IN  [h |-> [h1 EXCEPT !.x2 = h1.x1, !.x1 = in, !.y2 = h1.y1, !.y1 = y],
         out |-> y]

NoLpPending == [update |-> 0, sweep |-> FALSE]

NoLpCall == [name |-> "create", args |-> << >>, ret |-> 0, pre |-> NullLp]

InitLpVars ==
    /\ \E p \in LpCreateInputs :
          /\ lp = low_pass_create(p)
          /\ lpCall = [name |-> "create", args |-> p, ret |-> 0, pre |-> NullLp]
    /\ lpSince = 0
    /\ lpSamples = 0
    /\ lpCalls = 0
    /\ lpOut = 0
    /\ lpPending = NoLpPending

IdleLpVars ==
    /\ lp = NullLp
    /\ lpCall = NoLpCall
    /\ lpSince = 0
    /\ lpSamples = 0
    /\ lpCalls = 0
    /\ lpOut = 0
    /\ lpPending = NoLpPending

\* One call low_pass_update(handle, new_params)
LpUpdate ==
    /\ lpCalls < MaxLpCalls
    /\ lpSamples % LpCallPeriod = 0
    /\ \E p \in LpUpdateInputs, ub \in NanToInt32 :
        LET r == low_pass_update(lp, p, ub) IN
        /\ lp' = r.h
        /\ lpCall' = [name |-> "update", args |-> p, ret |-> r.ret, pre |-> lp]
        /\ lpPending' = IF r.ret = 0
                        THEN [lpPending EXCEPT !.update = TABLE_LEN]
                        ELSE lpPending
    /\ lpSince' = 0
    /\ lpCalls' = lpCalls + 1
    /\ UNCHANGED <<lpSamples, lpOut>>

\* One call low_pass_start_fc_sweep(handle, new_fc, nb_samples)
LpStartFcSweep ==
    /\ lpCalls < MaxLpCalls
    /\ lpSamples % LpCallPeriod = 0
    /\ \E a \in LpSweepInputs, ub \in NanToInt32 :
        LET r == low_pass_start_fc_sweep(lp, a[1], a[2], ub) IN
        /\ lp' = r.h
        /\ lpCall' = [name |-> "sweep", args |-> a, ret |-> r.ret, pre |-> lp]
        /\ lpPending' = IF r.ret = 0
                        THEN [lpPending EXCEPT !.sweep = TRUE]
                        ELSE lpPending
    /\ lpSince' = 0
    /\ lpCalls' = lpCalls + 1
    /\ UNCHANGED <<lpSamples, lpOut>>

\* One call low_pass_process(handle, in, 1, out)
LpProcess ==
    /\ lp.alloc
    /\ lpSamples < MaxLpSamples
    /\ \E ub \in NanToInt32 :
        LET r == low_pass_process(lp, LpInput(lpSamples), ub) IN
        /\ lp' = r.h
        /\ lpOut' = r.out
        /\ lpPending' =
              [update |-> IF lpPending.update > 0
                          THEN lpPending.update - 1 ELSE 0,
               sweep |-> /\ lpPending.sweep
                         /\ r.h.sweep_flag # 0 \/ r.h.update_flag # 0]
    /\ lpSince' = lpSince + 1
    /\ lpSamples' = lpSamples + 1
    /\ UNCHANGED <<lpCall, lpCalls>>

\* Impulse response of a designed filter: the filter is created for one of
\* ImpulseParams and fed a unit impulse followed by zeros
MaxImpulseSamples == 48

ImpulseParams ==
    {LpParams(12000, Rat(1, 4), 48000), LpParams(12000, Rat(1, 2), 48000),
     LpParams(12000, Rat(1, 1), 48000), LpParams(12000, Rat(3, 2), 48000),
     LpParams(12000, Rat(3, 1), 48000), LpParams(12000, Rat(1000, 1), 48000),
     LpParams(12000, Rat(1000000000, 1), 48000),
     LpParams(400, Rat(3, 2), 48000), LpParams(2000, Rat(3, 1), 48000)}

ImpulseInput(n) == IF n = 0 THEN 4194304 ELSE 0

InitImpulseVars ==
    /\ \E p \in ImpulseParams :
          /\ lp = low_pass_create(p)
          /\ lpCall = [name |-> "create", args |-> p, ret |-> 0, pre |-> NullLp]
    /\ lpSince = 0
    /\ lpSamples = 0
    /\ lpCalls = 0
    /\ lpOut = 0
    /\ lpPending = NoLpPending

\* One call low_pass_process(handle, in, 1, out) on the impulse
ImpulseProcess ==
    /\ lp.alloc
    /\ lpSamples < MaxImpulseSamples
    /\ \E r \in {low_pass_process(lp, ImpulseInput(lpSamples), 0)} :
        /\ lp' = r.h
        /\ lpOut' = r.out
    /\ lpSince' = lpSince + 1
    /\ lpSamples' = lpSamples + 1
    /\ UNCHANGED <<lpCall, lpCalls, lpPending>>

\* Calls made in the middle of a crossfade: the calls are made within the
\* first LpMidWindow samples of the run, every LpMidPeriod samples
MaxLpMidSamples == 620
MaxLpMidCalls   == 2
LpMidPeriod     == 100
LpMidWindow     == 100

LpMidUpdateInputs ==
    {LpParams(1000, Rat(3, 2), 48000), LpParams(400, Rat(3, 1), 48000)}

LpMidSweepInputs == {<<1000, 520>>, <<1000, 100>>, <<400, 100>>}

\* One call low_pass_update(handle, new_params)
LpMidUpdate ==
    /\ lp.alloc
    /\ lpCalls < MaxLpMidCalls
    /\ lpSamples <= LpMidWindow
    /\ lpSamples % LpMidPeriod = 0
    /\ \E p \in LpMidUpdateInputs :
        \E r \in {low_pass_update(lp, p, 0)} :
            /\ lp' = r.h
            /\ lpCall' = [name |-> "update", args |-> p, ret |-> r.ret,
                          pre |-> lp]
            /\ lpPending' = IF r.ret = 0
                            THEN [lpPending EXCEPT !.update = TABLE_LEN]
                            ELSE lpPending
    /\ lpSince' = 0
    /\ lpCalls' = lpCalls + 1
    /\ UNCHANGED <<lpSamples, lpOut>>

\* One call low_pass_start_fc_sweep(handle, new_fc, nb_samples)
LpMidStartFcSweep ==
    /\ lp.alloc
    /\ lpCalls < MaxLpMidCalls
    /\ lpSamples <= LpMidWindow
    /\ lpSamples % LpMidPeriod = 0
    /\ \E a \in LpMidSweepInputs, ub \in NanToInt32 :
        \E r \in {low_pass_start_fc_sweep(lp, a[1], a[2], ub)} :
            /\ lp' = r.h
            /\ lpCall' = [name |-> "sweep", args |-> a, ret |-> r.ret,
                          pre |-> lp]
            /\ lpPending' = IF r.ret = 0
                            THEN [lpPending EXCEPT !.sweep = TRUE]
                            ELSE lpPending
    /\ lpSince' = 0
    /\ lpCalls' = lpCalls + 1
    /\ UNCHANGED <<lpSamples, lpOut>>

\* One call low_pass_process(handle, in, 1, out)
LpMidProcess ==
    /\ lp.alloc
    /\ lpSamples < MaxLpMidSamples
    /\ \E ub \in NanToInt32 :
        \E r \in {low_pass_process(lp, LpInput(lpSamples), ub)} :
            /\ lp' = r.h
            /\ lpOut' = r.out
            /\ lpPending' =
                  [update |-> IF lpPending.update > 0
                              THEN lpPending.update - 1 ELSE 0,
                   sweep |-> /\ lpPending.sweep
                             /\ r.h.sweep_flag # 0 \/ r.h.update_flag # 0]
    /\ lpSince' = lpSince + 1
    /\ lpSamples' = lpSamples + 1
    /\ UNCHANGED <<lpCall, lpCalls>>

\* Continued processing: the caller goes on calling low_pass_process.  The
\* step that counts one more sample is the step of LpMidProcess, and it is
\* possible whenever LpMidProcess is.
LpMidContinues ==
    /\ lp.alloc
    /\ lpSamples < MaxLpMidSamples
    /\ lpSamples' = lpSamples + 1

\* Two filters driven by the same calls and the same input samples, the
\* gain values apart: the call number k is made after k * GainCallPeriod
\* samples.  Both run on the same build, so the conversion of a NaN
\* coefficient yields the same value for both.
MaxGainSamples == 270
GainCallPeriod == 100

\* the gain values passed to the first and to the second filter
GainPairs ==
    {<<ROne, ROne>>, <<ROne, RZero>>, <<Rat(1, 2), Rat(4, 1)>>}

GainCreateInputs == {LpParams(400, Rat(3, 2), 48000)}

GainUpdateInputs ==
    {LpParams(1000, Rat(3, 2), 48000), LpParams(0, Rat(3, 2), 48000)}

GainSweepInputs == {<<1000, 256>>, <<400, 100>>}

WithGain(p, gain) == [p EXCEPT !.gain = gain]

InitGainVars ==
    /\ \E p \in GainCreateInputs, g \in GainPairs :
          /\ lp = low_pass_create(WithGain(p, g[1]))
          /\ lpTwin = low_pass_create(WithGain(p, g[2]))
          /\ lpCall = [name |-> "create", args |-> p, ret |-> 0,
                       pre |-> NullLp]
          /\ lpGains = g
    /\ lpTwinOut = 0
    /\ lpTwinRet = 0
    /\ lpSince = 0
    /\ lpSamples = 0
    /\ lpCalls = 0
    /\ lpOut = 0
    /\ lpPending = NoLpPending

IdleTwinVars ==
    /\ lpTwin = NullLp
    /\ lpTwinOut = 0
    /\ lpTwinRet = 0
    /\ lpGains = <<RZero, RZero>>

\* One call low_pass_update(handle, new_params) on each filter
GainUpdate ==
    /\ lp.alloc
    /\ lpSamples < MaxGainSamples
    /\ lpSamples = lpCalls * GainCallPeriod
    /\ \E p \in GainUpdateInputs, g \in GainPairs, ub \in NanToInt32 :
        \E r \in {low_pass_update(lp, WithGain(p, g[1]), ub)},
           t \in {low_pass_update(lpTwin, WithGain(p, g[2]), ub)} :
            /\ lp' = r.h
            /\ lpTwin' = t.h
            /\ lpCall' = [name |-> "update", args |-> p, ret |-> r.ret,
                          pre |-> lp]
            /\ lpTwinRet' = t.ret
            /\ lpGains' = <<IF r.ret = 0 THEN g[1] ELSE lpGains[1],
                            IF t.ret = 0 THEN g[2] ELSE lpGains[2]>>
    /\ lpSince' = 0
    /\ lpCalls' = lpCalls + 1
    /\ UNCHANGED <<lpSamples, lpOut, lpPending, lpTwinOut>>

\* One call low_pass_start_fc_sweep(handle, new_fc, nb_samples) on each
GainStartFcSweep ==
    /\ lp.alloc
    /\ lpSamples < MaxGainSamples
    /\ lpSamples = lpCalls * GainCallPeriod
    /\ \E a \in GainSweepInputs, ub \in NanToInt32 :
        \E r \in {low_pass_start_fc_sweep(lp, a[1], a[2], ub)},
           t \in {low_pass_start_fc_sweep(lpTwin, a[1], a[2], ub)} :
            /\ lp' = r.h
            /\ lpTwin' = t.h
            /\ lpCall' = [name |-> "sweep", args |-> a, ret |-> r.ret,
                          pre |-> lp]
            /\ lpTwinRet' = t.ret
    /\ lpSince' = 0
    /\ lpCalls' = lpCalls + 1
    /\ UNCHANGED <<lpSamples, lpOut, lpPending, lpTwinOut, lpGains>>

\* One call low_pass_process(handle, in, 1, out) on each, same sample
GainProcess ==
    /\ lp.alloc
    /\ lpSamples < MaxGainSamples
    /\ \E ub \in NanToInt32 :
        \E r \in {low_pass_process(lp, LpInput(lpSamples), ub)},
           t \in {low_pass_process(lpTwin, LpInput(lpSamples), ub)} :
            /\ lp' = r.h
            /\ lpOut' = r.out
            /\ lpTwin' = t.h
            /\ lpTwinOut' = t.out
    /\ lpSince' = lpSince + 1
    /\ lpSamples' = lpSamples + 1
    /\ UNCHANGED <<lpCall, lpCalls, lpPending, lpTwinRet, lpGains>>

-----------------------------------------------------------------------------
(* Square oscillator: square_gen.c *)

\* (int32_t) of an infinite float is undefined: what the conversion may produce
InfToInt32 == {Int32Min, Int32Max}

NullSquare ==
    [alloc |-> FALSE, f0 |-> 0, fs |-> 0, intensity |-> RZero, index |-> 0,
     i_up |-> 0, i_down |-> 0, i_current |-> 0, half_period |-> 0]

\* (int32_t)(intensity * QS823_MAX)                  (square_gen.c:64, 169)
\* The product is a float: with the intensity m * 2^-(24+k) for a 24-bit
\* mantissa m (2^23 <= m <= 2^24, the float nearest to n/d), the product
\* m * (2^23 - 1) is rounded to 24 bits, which gives (m - 1) * 2^23 below
\* 3/4 of the binade and (m - 2) * 2^23 from there on, and the conversion
\* drops the k + 1 fractional bits.  Below 1/64 the rounding is left out.
float_exponent(i) ==
    CHOOSE k \in 0..6 : 2^k * i.n >= i.d /\ (k = 0 \/ 2^(k - 1) * i.n < i.d)

float_mantissa(i) ==
    (ScaleDown(2^(24 + float_exponent(i)), i.n, i.d) + 1) \div 2

square_i_up(intensity) ==
    IF intensity.n <= 0 \/ 64 * intensity.n < intensity.d
    THEN RTrunc(RMul(intensity, Rat(QS823_MAX, 1)))
    ELSE Then(float_mantissa(intensity), LAMBDA m :
              (IF m < 3 * 2^22 THEN m - 1 ELSE m - 2)
                  \div 2^float_exponent(intensity))

\* (int32_t)(fs / (2 * f0)) (square_gen.c:66, 124).  With f0 = 0 the quotient
\* is infinite and its conversion yields ub.
square_half_period(fs, f0, ub) ==
    IF f0 = 0 THEN ub ELSE fs \div (2 * f0)

\* square_gen_create (square_gen.c:45-76)
square_gen_create(p, ub) ==
    IF \/ p.fs < 0
       \/ p.f0 < 0
       \/ 2 * p.f0 >= p.fs
       \/ RLt(p.intensity, RZero)
       \/ RLt(ROne, p.intensity)
    THEN NullSquare
    ELSE [alloc |-> TRUE, f0 |-> p.f0, fs |-> p.fs,
          intensity |-> p.intensity, index |-> 0,
          i_up |-> square_i_up(p.intensity),
          i_down |-> -square_i_up(p.intensity),
          i_current |-> square_i_up(p.intensity),
          half_period |-> square_half_period(p.fs, p.f0, ub)]

\* square_gen_set_frequency (square_gen.c:111-132): [ret, h]
square_gen_set_frequency(h, f0, ub) ==
    IF ~h.alloc \/ f0 < 0 \/ 2 * f0 >= h.fs
    THEN [ret |-> -EINVAL, h |-> h]
    ELSE [ret |-> 0,
          h |-> [h EXCEPT !.f0 = f0,
                          !.half_period = square_half_period(h.fs, f0, ub),
                          !.index = 0]]

\* square_gen_set_intensity (square_gen.c:153-178): [ret, h]
square_gen_set_intensity(h, intensity) ==
    IF ~h.alloc \/ RLt(intensity, RZero) \/ RLt(ROne, intensity)
    THEN [ret |-> -EINVAL, h |-> h]
    ELSE [ret |-> 0,
          h |-> [h EXCEPT !.intensity = intensity,
                          !.i_up = square_i_up(intensity),
                          !.i_down = -square_i_up(intensity),
                          !.i_current = IF h.i_current = h.i_up
                                        THEN square_i_up(intensity)
                                        ELSE -square_i_up(intensity)]]

\* mutant: the phase counter is compared before it is incremented
square_next_late(h) ==
    IF h.index = h.half_period
    THEN [h EXCEPT !.index = 0,
                   !.i_current = IF h.i_current = h.i_up
                                 THEN h.i_down ELSE h.i_up]
    ELSE [h EXCEPT !.index = h.index + 1]

\* one iteration of the loop of square_gen_process (square_gen.c:190-200):
\* the handle after out[i] = i_current has been written
square_next(h) ==
    IF h.index + 1 = h.half_period
    THEN [h EXCEPT !.index = 0,
                   !.i_current = IF h.i_current = h.i_up
                                 THEN h.i_down ELSE h.i_up]
    ELSE [h EXCEPT !.index = h.index + 1]

\* square_gen_process (square_gen.c:181-205): [h, out] after nb_frames
\* samples, the loop unfolded by halves
RECURSIVE square_gen_process(_, _)
square_gen_process(h, nb_frames) ==
    IF nb_frames <= 0
    THEN [h |-> h, out |-> << >>]
    ELSE IF nb_frames = 1
    THEN [h |-> square_next(h), out |-> <<h.i_current>>]
    ELSE Then(square_gen_process(h, nb_frames \div 2), LAMBDA a :
         Then(square_gen_process(a.h, nb_frames - (nb_frames \div 2)),
              LAMBDA b : [h |-> b.h, out |-> a.out \o b.out]))

\* Bounds of the square model
MaxSquareSamples == 9    \* samples processed in a run
MaxSquareCalls   == 2    \* square_gen_set_* calls in a run
SquareCallPeriod == 3    \* the calls are made every SquareCallPeriod samples

\* Inputs of square_gen_create, square_gen_set_frequency and
\* square_gen_set_intensity
SquareFs          == {48000}
SquareF0          == {6000, 5000, 23999, 0, 24000}
SquareIntensities == {ROne, Rat(7, 10), RZero, Rat(3, 2)}
SquareNewF0       == {12000, 6000, 0, -1}

SquareParams == [fs : SquareFs, f0 : SquareF0, intensity : SquareIntensities]

NoSquareCall == [name |-> "none", arg |-> 0, ret |-> 0, pre |-> NullSquare]

InitSquareVars ==
    /\ \E p \in SquareParams, ub \in InfToInt32 :
          sqGen = square_gen_create(p, ub)
    /\ sqCall = NoSquareCall
    /\ sqOut = 0
    /\ sqHigh = TRUE
    /\ sqSteady = TRUE
    /\ sqSamples = 0
    /\ sqCalls = 0

IdleSqVars ==
    /\ sqGen = NullSquare
    /\ sqCall = NoSquareCall
    /\ sqOut = 0
    /\ sqHigh = TRUE
    /\ sqSteady = TRUE
    /\ sqSamples = 0
    /\ sqCalls = 0

\* One call square_gen_set_frequency(handle, f0)
SquareSetFrequency ==
    /\ sqGen.alloc
    /\ sqCalls < MaxSquareCalls
    /\ sqSamples % SquareCallPeriod = 0
    /\ \E f0 \in SquareNewF0, ub \in InfToInt32 :
        \E r \in {square_gen_set_frequency(sqGen, f0, ub)} :
            /\ sqGen' = r.h
            /\ sqCall' = [name |-> "frequency", arg |-> f0, ret |-> r.ret,
                          pre |-> sqGen]
            /\ sqSteady' = (sqSteady /\ r.ret # 0)
    /\ sqCalls' = sqCalls + 1
    /\ UNCHANGED <<sqOut, sqHigh, sqSamples>>

\* One call square_gen_set_intensity(handle, intensity)
SquareSetIntensity ==
    /\ sqGen.alloc
    /\ sqCalls < MaxSquareCalls
    /\ sqSamples % SquareCallPeriod = 0
    /\ \E intensity \in SquareIntensities :
        \E r \in {square_gen_set_intensity(sqGen, intensity)} :
            /\ sqGen' = r.h
            /\ sqCall' = [name |-> "intensity", arg |-> intensity,
                          ret |-> r.ret, pre |-> sqGen]
            /\ sqSteady' = (sqSteady /\ r.ret # 0)
    /\ sqCalls' = sqCalls + 1
    /\ UNCHANGED <<sqOut, sqHigh, sqSamples>>

\* One call square_gen_process(handle, 1, out)
SquareProcess ==
    /\ sqGen.alloc
    /\ sqSamples < MaxSquareSamples
    /\ \E r \in {square_gen_process(sqGen, 1)} :
        /\ sqGen' = r.h
        /\ sqOut' = r.out[1]
        /\ sqHigh' = IF r.h.index = 0 /\ sqGen.index + 1 = sqGen.half_period
                     THEN ~sqHigh ELSE sqHigh
    /\ sqSamples' = sqSamples + 1
    /\ UNCHANGED <<sqCall, sqSteady, sqCalls>>

-----------------------------------------------------------------------------
(* Waveform generator: wave_gen.c (in square_gen.c, from line 207) *)

\* enum wave_gen_mode (wave_gen.h, in adsr.c:329-333)
WAVE_MODE_SINE   == 0
WAVE_MODE_SAW    == 1
WAVE_MODE_SQUARE == 2

NullGen == [alloc |-> FALSE]

NullWave ==
    [alloc |-> FALSE, gen |-> NullGen, frequency |-> 0, mode |-> 0]

\* wave_gen_create (square_gen.c:247-296); the frequency field is left at
\* the zero of calloc
wave_gen_create(params, ub) ==
    LET p == [fs |-> params.fs, f0 |-> params.f0,
              intensity |-> params.intensity]
        gen == CASE params.mode = WAVE_MODE_SAW -> saw_gen_create(p)
                 [] params.mode = WAVE_MODE_SINE -> sine_gen_create(p)
                 [] params.mode = WAVE_MODE_SQUARE -> square_gen_create(p, ub)
                 [] OTHER -> NullGen
    IN  IF ~gen.alloc
        THEN NullWave
        ELSE [alloc |-> TRUE, gen |-> gen, frequency |-> 0,
              mode |-> params.mode]

\* wave_gen_get_frequency (square_gen.c:326-352): *f0
wave_gen_get_frequency(h) == h.gen.f0

\* wave_gen_set_frequency (square_gen.c:355-385): [ret, h].  The frequency
\* field is written whatever the generator returned.
wave_gen_set_frequency(h, f0, ub) ==
    IF ~h.alloc
    THEN [ret |-> -EINVAL, h |-> h]
    ELSE IF f0 = h.frequency
    THEN [ret |-> 0, h |-> h]
    ELSE LET r == CASE h.mode = WAVE_MODE_SAW ->
                           saw_gen_set_frequency(h.gen, f0)
                     [] h.mode = WAVE_MODE_SINE ->
                           sine_gen_set_frequency(h.gen, f0)
                     [] h.mode = WAVE_MODE_SQUARE ->
                           square_gen_set_frequency(h.gen, f0, ub)
                     [] OTHER -> [ret |-> 0, h |-> h.gen]
         IN  [ret |-> r.ret,
              h |-> [h EXCEPT !.gen = r.h, !.frequency = f0]]

\* wave_gen_get_intensity (square_gen.c:388-414): *intensity
wave_gen_get_intensity(h) == h.gen.intensity

\* wave_gen_set_intensity (square_gen.c:417-442): [ret, h]
wave_gen_set_intensity(h, intensity) ==
    IF ~h.alloc
    THEN [ret |-> -EINVAL, h |-> h]
    ELSE LET r == CASE h.mode = WAVE_MODE_SAW ->
                           saw_gen_set_intensity(h.gen, intensity)
                     [] h.mode = WAVE_MODE_SINE ->
                           sine_gen_set_intensity(h.gen, intensity)
                     [] OTHER ->
                           square_gen_set_intensity(h.gen, intensity)
         IN  [ret |-> r.ret, h |-> [h EXCEPT !.gen = r.h]]

\* wave_gen_process (square_gen.c:445-470): [h, out]
wave_gen_process(h, nb_frames) ==
    Then(CASE h.mode = WAVE_MODE_SAW ->
                  saw_gen_process(h.gen, nb_frames)
           [] h.mode = WAVE_MODE_SINE ->
                  sine_gen_process(h.gen, nb_frames)
           [] OTHER ->
                  square_gen_process(h.gen, nb_frames),
         LAMBDA r : [h |-> [h EXCEPT !.gen = r.h], out |-> r.out])

\* Bounds of the waveform generator model
WaveFrameLen  == 64      \* nb_frames of each wave_gen_process call
MaxWaveFrames == 6       \* wave_gen_process calls in a run
MaxWaveCalls  == 3       \* wave_gen_set_frequency calls in a run

\* Inputs of wave_gen_create and wave_gen_set_frequency
WaveModes       == {WAVE_MODE_SINE, WAVE_MODE_SAW, WAVE_MODE_SQUARE}
WaveParams ==
    [fs : {48000}, f0 : {6000}, intensity : {ROne, Rat(1, 2)},
     mode : WaveModes]
WaveFrequencies == {6000, 12000, 18000}

NoWaveCall  == [f0 |-> -1, ret |-> 0, pre |-> NullWave]
NoWaveRetry == [state |-> "none", f0 |-> -1]

InitWaveVars ==
    /\ \E p \in WaveParams : wave = wave_gen_create(p, Int32Min)
    /\ waveCall = NoWaveCall
    /\ waveRetry = NoWaveRetry
    /\ waveFrames = 0
    /\ waveCalls = 0

IdleWaveVars ==
    /\ wave = NullWave
    /\ waveCall = NoWaveCall
    /\ waveRetry = NoWaveRetry
    /\ waveFrames = 0
    /\ waveCalls = 0

\* a frequency transition of the generator is pending or in progress
WaveInTransition(h) ==
    h.mode = WAVE_MODE_SINE /\ h.gen.frequency_transition # 0

\* One call wave_gen_set_frequency(handle, f0).  waveRetry follows the
\* caller: a request that returned -EAGAIN is "rejected"; the same request
\* made again once no transition is left is "retried".
WaveSetFrequency ==
    /\ waveCalls < MaxWaveCalls
    /\ \E f0 \in WaveFrequencies :
        \E r \in {wave_gen_set_frequency(wave, f0, Int32Min)} :
        /\ wave' = r.h
        /\ waveCall' = [f0 |-> f0, ret |-> r.ret, pre |-> wave]
        /\ waveRetry' =
              IF r.ret = -EAGAIN
              THEN [state |-> "rejected", f0 |-> f0]
              ELSE IF /\ waveRetry.state = "rejected"
                      /\ waveRetry.f0 = f0
                      /\ ~WaveInTransition(wave)
              THEN [state |-> "retried", f0 |-> f0]
              ELSE NoWaveRetry
    /\ waveCalls' = waveCalls + 1
    /\ UNCHANGED waveFrames

\* One call wave_gen_process(handle, WaveFrameLen, out)
WaveProcess ==
    /\ wave.alloc
    /\ waveFrames < MaxWaveFrames
    /\ \E r \in {wave_gen_process(wave, WaveFrameLen)} : wave' = r.h
    /\ waveFrames' = waveFrames + 1
    /\ UNCHANGED <<waveCall, waveRetry, waveCalls>>

-----------------------------------------------------------------------------
(* Voice: moog.c, lines 1-419 *)

\* moog.c:36 (QS823_MAX is moog.c:37)
QS823_MIN == -8388608

\* enum moog_osc_coupling (moog.h, in sine_gen.h:176-182)
MOOG_OSC_COUPLING_NONE        == 0
MOOG_OSC_COUPLING_THIRD_MINOR == 1
MOOG_OSC_COUPLING_THIRD_MAJOR == 2
MOOG_OSC_COUPLING_FIFTH       == 3
MOOG_OSC_COUPLING_OCTAVE      == 4

\* Bounds of the voice model
VoiceFrameSize  == 16    \* frame_size of the voices of SpecVoice
MaxVoiceFrames  == 5     \* moog_process calls in a run
MaxVoiceCalls   == 2     \* control calls in a run
VoiceCallPeriod == 2     \* the control calls are made every VoiceCallPeriod
                         \* frames

\* Inputs of moog_create: struct moog_params.  The couplings of the model
\* are those whose scale is a whole number (none and octave) and a value
\* outside the enum; a third or a fifth multiplies the frequency by a float
\* that is not a whole number.
VoiceModes     == {WAVE_MODE_SINE, WAVE_MODE_SAW, WAVE_MODE_SQUARE, 3}
VoiceCouplings == {MOOG_OSC_COUPLING_NONE, MOOG_OSC_COUPLING_OCTAVE, 5}
VoiceParams ==
    [fs : {48000}, frame_size : {VoiceFrameSize},
     fc : {2000}, Q : {Rat(3, 2)},
     attack_time : {1}, decay_time : {1}, sustain : {ROne},
     release_time : {1},
     osc_mode : VoiceModes, coupling : VoiceCouplings]
\* Inputs of moog_set_frequency, moog_set_intensity, moog_toggle
VoiceFrequencies == {6000, 12000, 24000}
VoiceIntensities == {ROne, Rat(1, 2), Rat(3, 2)}
VoiceStates      == {0, 1, 2}
\* Inputs of moog_filter_set_parameters (fc, Q) and
\* moog_filter_start_fc_sweep (new_fc, nb_frames)
VoiceFilters     == {<<1000, Rat(3, 2)>>, <<0, Rat(3, 2)>>}
VoiceSweeps      == {<<1000, 16>>, <<1000, 2>>}

\* a | b on int
RECURSIVE BitOr(_, _)
BitOr(a, b) ==
    IF a = 0 THEN b
    ELSE IF b = 0 THEN a
    ELSE IF a = -1 \/ b = -1 THEN -1
    ELSE (IF a % 2 = 1 \/ b % 2 = 1 THEN 1 ELSE 0)
         + 2 * BitOr(a \div 2, b \div 2)

NullMoog ==
    [alloc |-> FALSE, fs |-> 0, adsr |-> NullAdsr, intensity |-> RZero,
     lpf |-> NullLp, coupling_scale |-> 0,
     osc1 |-> NullWave, osc2 |-> NullWave, coupling |-> 0,
     frame_size |-> 0,
     osc1_output |-> << >>, osc2_output |-> << >>, sum_output |-> << >>,
     adsr_output |-> << >>, adsr_scale |-> << >>]

\* the switch on the coupling mode (moog.c:114-132), for the modes of the
\* model
coupling_scale(coupling) ==
    CASE coupling = MOOG_OSC_COUPLING_NONE   -> 0
      [] coupling = MOOG_OSC_COUPLING_OCTAVE -> 2

\* a buffer of calloc: n zeroes
ZeroBuffer(n) == [i \in 1..n |-> 0]

\* moog_create (moog.c:70-174).  zeroOk: calloc(0, ...) returns a block;
\* ub: the conversion of an infinite half period.
moog_create(params, zeroOk, ub) ==
    LET a == adsr_create([fs |-> params.fs, attack |-> params.attack_time,
                          decay |-> params.decay_time,
                          sustain |-> params.sustain,
                          release |-> params.release_time], zeroOk)
        osc == wave_gen_create([fs |-> params.fs, f0 |-> 0,
                                intensity |-> RZero,
                                mode |-> params.osc_mode], ub)
        coupled == params.coupling # MOOG_OSC_COUPLING_NONE
        lpf == low_pass_create([Q |-> params.Q, gain |-> ROne,
                                fc |-> FNum(params.fc), fs |-> params.fs])
    IN  IF \/ ~a.alloc
           \/ ~osc.alloc
           \/ params.coupling \notin
                  MOOG_OSC_COUPLING_NONE..MOOG_OSC_COUPLING_OCTAVE
           \/ ~lpf.alloc
           \/ (~zeroOk /\ params.frame_size = 0)
        THEN NullMoog
        ELSE [alloc |-> TRUE, fs |-> params.fs, adsr |-> a,
              intensity |-> RZero, lpf |-> lpf,
              coupling_scale |-> coupling_scale(params.coupling),
              osc1 |-> osc,
              osc2 |-> IF coupled THEN osc ELSE NullWave,
              coupling |-> params.coupling,
              frame_size |-> params.frame_size,
              osc1_output |-> ZeroBuffer(params.frame_size),
              osc2_output |-> IF coupled
                              THEN ZeroBuffer(params.frame_size) ELSE << >>,
              sum_output |-> IF coupled
                             THEN ZeroBuffer(params.frame_size) ELSE << >>,
              adsr_output |-> ZeroBuffer(params.frame_size),
              adsr_scale |-> ZeroBuffer(params.frame_size)]

\* mutant: the trigger always passes full intensity
moog_toggle_full(h, state) ==
    IF ~h.alloc \/ (state # 0 /\ state # 1)
    THEN [ret |-> -EINVAL, h |-> h]
    ELSE LET r == adsr_toggle(h.adsr, state, ROne)
         IN  [ret |-> r.ret, h |-> [h EXCEPT !.adsr = r.h]]

\* moog_toggle (moog.c:206-228): [ret, h]
moog_toggle(h, state) ==
    IF ~h.alloc \/ (state # 0 /\ state # 1)
    THEN [ret |-> -EINVAL, h |-> h]
    ELSE LET r == adsr_toggle(h.adsr, state, h.intensity)
         IN  [ret |-> r.ret, h |-> [h EXCEPT !.adsr = r.h]]

\* mutant: the second oscillator keeps its intensity
moog_set_intensity_osc1(h, intensity) ==
    IF ~h.alloc \/ RLt(intensity, RZero) \/ RLt(ROne, intensity)
    THEN [ret |-> -EINVAL, h |-> h]
    ELSE LET r1 == wave_gen_set_intensity(h.osc1, intensity)
         IN  [ret |-> r1.ret,
              h |-> [h EXCEPT !.intensity = intensity, !.osc1 = r1.h]]

\* moog_set_intensity (moog.c:231-251): [ret, h]
moog_set_intensity(h, intensity) ==
    IF ~h.alloc \/ RLt(intensity, RZero) \/ RLt(ROne, intensity)
    THEN [ret |-> -EINVAL, h |-> h]
    ELSE LET r1 == wave_gen_set_intensity(h.osc1, intensity)
             r2 == wave_gen_set_intensity(h.osc2, intensity)
         IN  IF h.coupling # MOOG_OSC_COUPLING_NONE
             THEN [ret |-> BitOr(r1.ret, r2.ret),
                   h |-> [h EXCEPT !.intensity = intensity,
                                   !.osc1 = r1.h, !.osc2 = r2.h]]
             ELSE [ret |-> r1.ret,
                   h |-> [h EXCEPT !.intensity = intensity, !.osc1 = r1.h]]

\* moog_get_intensity (moog.c:254-268): *intensity
moog_get_intensity(h) == wave_gen_get_intensity(h.osc1)

\* moog_set_frequency (moog.c:271-289): [ret, h]
moog_set_frequency(h, frequency, ub) ==
    IF ~h.alloc \/ frequency <= 0 \/ 2 * frequency >= h.fs
    THEN [ret |-> -EINVAL, h |-> h]
    ELSE LET r1 == wave_gen_set_frequency(h.osc1, frequency, ub)
             r2 == wave_gen_set_frequency(h.osc2,
                                          frequency * h.coupling_scale, ub)
         IN  IF h.coupling # MOOG_OSC_COUPLING_NONE
             THEN [ret |-> BitOr(r1.ret, r2.ret),
                   h |-> [h EXCEPT !.osc1 = r1.h, !.osc2 = r2.h]]
             ELSE [ret |-> r1.ret, h |-> [h EXCEPT !.osc1 = r1.h]]

\* moog_get_frequency (moog.c:292-306): *frequency
moog_get_frequency(h) == wave_gen_get_frequency(h.osc1)

\* moog_filter_get_parameters (moog.c:309-333): [fc, Q, gain]
moog_filter_get_parameters(h) ==
    [fc |-> low_pass_get_parameters(h.lpf).fc,
     Q |-> low_pass_get_parameters(h.lpf).Q,
     gain |-> low_pass_get_parameters(h.lpf).gain]

\* moog_filter_set_parameters (moog.c:336-355): [ret, h]
moog_filter_set_parameters(h, new_fc, new_Q, new_gain, ub) ==
    IF ~h.alloc
    THEN [ret |-> -EINVAL, h |-> h]
    ELSE LET r == low_pass_update(h.lpf,
                                  [fs |-> h.fs, fc |-> new_fc, Q |-> new_Q,
                                   gain |-> new_gain], ub)
         IN  [ret |-> r.ret, h |-> [h EXCEPT !.lpf = r.h]]

\* moog_filter_start_fc_sweep (moog.c:358-372): [ret, h]
moog_filter_start_fc_sweep(h, new_fc, nb_frames, ub) ==
    IF ~h.alloc
    THEN [ret |-> -EINVAL, h |-> h]
    ELSE LET r == low_pass_start_fc_sweep(h.lpf, new_fc,
                                          nb_frames * h.frame_size, ub)
         IN  [ret |-> r.ret, h |-> [h EXCEPT !.lpf = r.h]]

\* adsr_process (adsr.c:266-286): [h, enveloppe] after nb_frames samples,
\* the loop unfolded by halves.  oob is what a read past the end of a ramp
\* table yields.
RECURSIVE adsr_process(_, _, _)
adsr_process(h, nb_frames, oob) ==
    IF nb_frames <= 0
    THEN [h |-> h, enveloppe |-> << >>]
    ELSE IF nb_frames = 1
    THEN [h |-> CHOOSE g \in adsr_state_update(h) :
                    adsr_update_oob(h) => g.state_factor = oob,
          enveloppe |-> <<RMul(h.intensity, h.state_factor)>>]
    ELSE Then(adsr_process(h, nb_frames \div 2, oob), LAMBDA a :
         Then(adsr_process(a.h, nb_frames - (nb_frames \div 2), oob),
              LAMBDA b : [h |-> b.h,
                          enveloppe |-> a.enveloppe \o b.enveloppe]))

\* the loop of low_pass_process (moog.c:807-830) over the buffer in:
\* [h, out], unfolded by halves
RECURSIVE low_pass_process_buffer(_, _, _)
low_pass_process_buffer(h, in, ub) ==
    IF Len(in) = 0
    THEN [h |-> h, out |-> << >>]
    ELSE IF Len(in) = 1
    THEN Then(low_pass_process(h, in[1], ub),
              LAMBDA r : [h |-> r.h, out |-> <<r.out>>])
    ELSE Then(low_pass_process_buffer(h, SubSeq(in, 1, Len(in) \div 2), ub),
              LAMBDA a :
         Then(low_pass_process_buffer(a.h,
                  SubSeq(in, (Len(in) \div 2) + 1, Len(in)), ub),
              LAMBDA b : [h |-> b.h, out |-> a.out \o b.out]))

\* mutant: the sum is kept in 32 bits without saturation
moog_sum_plain(a, b) == Add32(a, b)

\* (int32_t)(MAX(MIN(tmp_sum, QS823_MAX), QS823_MIN)) of the 64-bit sum
\*                                                       (moog.c:397-398)
moog_sum(a, b) ==
    IF a + b > QS823_MAX THEN QS823_MAX
    ELSE IF a + b < QS823_MIN THEN QS823_MIN
    ELSE a + b

\* mutant: the envelope is not applied
moog_apply_scale_bypass(scale, sample) == sample

\* (int32_t)(adsr_scale[i] * sample) (moog.c:403, 409): the product
\* truncated toward zero, for 0 <= scale <= 1
moog_apply_scale(scale, sample) ==
    IF sample >= 0
    THEN ScaleDown(sample, scale.n, scale.d)
    ELSE -ScaleDown(-sample, scale.n, scale.d)

\* moog_process (moog.c:375-418): [h, output]
moog_process(h, oob, ub) ==
    LET coupled == h.coupling # MOOG_OSC_COUPLING_NONE
        n == h.frame_size
    IN  Then(adsr_process(h.adsr, n, oob), LAMBDA e :
        Then(wave_gen_process(h.osc1, n), LAMBDA o1 :
        Then(IF coupled THEN wave_gen_process(h.osc2, n)
             ELSE [h |-> h.osc2, out |-> h.osc2_output], LAMBDA o2 :
        Then(IF coupled
             THEN [i \in 1..n |-> moog_sum(o1.out[i], o2.out[i])]
             ELSE h.sum_output, LAMBDA sum :
        Then([i \in 1..n |->
                 moog_apply_scale(e.enveloppe[i],
                                  IF coupled THEN sum[i] ELSE o1.out[i])],
             LAMBDA scaled :
        Then(low_pass_process_buffer(h.lpf, scaled, ub), LAMBDA f :
             [h |-> [h EXCEPT !.adsr = e.h,
                              !.adsr_scale = e.enveloppe,
                              !.osc1 = o1.h,
                              !.osc1_output = o1.out,
                              !.osc2 = o2.h,
                              !.osc2_output = o2.out,
                              !.sum_output = sum,
                              !.adsr_output = scaled,
                              !.lpf = f.h],
              output |-> f.out]))))))

NoMoogCall ==
    [name |-> "create", arg |-> 0, ret |-> 0, pre |-> NullMoog, frames |-> 0]

InitMoogVars ==
    /\ \E p \in VoiceParams, ub \in InfToInt32 :
          moog = moog_create(p, TRUE, ub)
    /\ moogCall = NoMoogCall
    /\ moogAccepted = RZero
    /\ moogOn = FALSE
    /\ moogOut = << >>
    /\ moogNonZero = 0
    /\ moogFrames = 0
    /\ moogCalls = 0

IdleMoogVars ==
    /\ moog = NullMoog
    /\ moogCall = NoMoogCall
    /\ moogAccepted = RZero
    /\ moogOn = FALSE
    /\ moogOut = << >>
    /\ moogNonZero = 0
    /\ moogFrames = 0
    /\ moogCalls = 0

\* One call moog_set_frequency(handle, frequency)
MoogSetFrequency ==
    /\ moogCalls < MaxVoiceCalls
    /\ moogFrames % VoiceCallPeriod = 0
    /\ \E f \in VoiceFrequencies, ub \in InfToInt32 :
        LET r == moog_set_frequency(moog, f, ub) IN
        /\ moog' = r.h
        /\ moogCall' = [name |-> "set_frequency", arg |-> f, ret |-> r.ret,
                        pre |-> moog, frames |-> moogFrames]
    /\ moogCalls' = moogCalls + 1
    /\ UNCHANGED <<moogAccepted, moogOn, moogOut, moogNonZero, moogFrames>>

\* One call moog_set_intensity(handle, intensity)
MoogSetIntensity ==
    /\ moogCalls < MaxVoiceCalls
    /\ moogFrames % VoiceCallPeriod = 0
    /\ \E i \in VoiceIntensities :
        LET r == moog_set_intensity(moog, i) IN
        /\ moog' = r.h
        /\ moogCall' = [name |-> "set_intensity", arg |-> i, ret |-> r.ret,
                        pre |-> moog, frames |-> moogFrames]
        /\ moogAccepted' = IF r.ret = 0 THEN i ELSE moogAccepted
    /\ moogCalls' = moogCalls + 1
    /\ UNCHANGED <<moogOn, moogOut, moogNonZero, moogFrames>>

\* One call moog_toggle(handle, state)
MoogToggle ==
    /\ moogCalls < MaxVoiceCalls
    /\ moogFrames % VoiceCallPeriod = 0
    /\ \E s \in VoiceStates :
        LET r == moog_toggle(moog, s) IN
        /\ moog' = r.h
        /\ moogCall' = [name |-> "toggle", arg |-> s, ret |-> r.ret,
                        pre |-> moog, frames |-> moogFrames]
        /\ moogOn' = (moogOn \/ (s # 0 /\ r.ret = 0))
    /\ moogCalls' = moogCalls + 1
    /\ UNCHANGED <<moogAccepted, moogOut, moogNonZero, moogFrames>>

\* One call moog_filter_set_parameters(handle, fc, Q, 1.0)
MoogFilterSetParameters ==
    /\ moogCalls < MaxVoiceCalls
    /\ moogFrames % VoiceCallPeriod = 0
    /\ \E a \in VoiceFilters :
        \E r \in {moog_filter_set_parameters(moog, FNum(a[1]), a[2], ROne, 0)} :
        /\ moog' = r.h
        /\ moogCall' = [name |-> "filter_set_parameters", arg |-> a,
                        ret |-> r.ret, pre |-> moog, frames |-> moogFrames]
    /\ moogCalls' = moogCalls + 1
    /\ UNCHANGED <<moogAccepted, moogOn, moogOut, moogNonZero, moogFrames>>

\* One call moog_filter_start_fc_sweep(handle, new_fc, nb_frames)
MoogFilterStartFcSweep ==
    /\ moogCalls < MaxVoiceCalls
    /\ moogFrames % VoiceCallPeriod = 0
    /\ \E a \in VoiceSweeps :
        \E r \in {moog_filter_start_fc_sweep(moog, a[1], a[2], 0)} :
        /\ moog' = r.h
        /\ moogCall' = [name |-> "filter_start_fc_sweep", arg |-> a,
                        ret |-> r.ret, pre |-> moog, frames |-> moogFrames]
    /\ moogCalls' = moogCalls + 1
    /\ UNCHANGED <<moogAccepted, moogOn, moogOut, moogNonZero, moogFrames>>

\* number of non-zero samples of a buffer
NonZero(out) == Cardinality({i \in 1..Len(out) : out[i] # 0})

\* One call moog_process(handle, output): one frame
MoogProcess ==
    /\ moog.alloc
    /\ moogFrames < MaxVoiceFrames
    /\ \E oob \in (IF moog.adsr.decay_len = 0 THEN OobFactors ELSE {RZero}) :
      \E r \in {moog_process(moog, oob, 0)} :
        /\ moog' = r.h
        /\ moogOut' = r.output
        /\ moogNonZero' = moogNonZero + NonZero(r.output)
    /\ moogFrames' = moogFrames + 1
    /\ UNCHANGED <<moogCall, moogAccepted, moogOn, moogCalls>>

\* The end-to-end scenario: a saw voice without coupling at fs = 48000 with
\* frames of 500 samples and the envelope 25 ms / 15 ms / 0.7 / 10 ms, on
\* which set_frequency(440), toggle(1) and ScenarioFrames calls of
\* moog_process are made.  The filter parameters are free.
ScenarioFrames == 10
ScenarioFc     == {100, 200, 400, 500, 800, 1000, 1200, 1500, 1800, 2000}
ScenarioQ      == {Rat(3, 2), Rat(3, 1)}
ScenarioParams ==
    [fs : {48000}, frame_size : {500},
     fc : ScenarioFc, Q : ScenarioQ,
     attack_time : {25}, decay_time : {15}, sustain : {Rat(7, 10)},
     release_time : {10},
     osc_mode : {WAVE_MODE_SAW}, coupling : {MOOG_OSC_COUPLING_NONE}]

InitScenarioVars ==
    /\ \E p \in ScenarioParams : moog = moog_create(p, TRUE, Int32Min)
    /\ moogCall = NoMoogCall
    /\ moogAccepted = RZero
    /\ moogOn = FALSE
    /\ moogOut = << >>
    /\ moogNonZero = 0
    /\ moogFrames = 0
    /\ moogCalls = 0

\* moog_set_frequency(handle, 440), the first call of the scenario
ScenarioSetFrequency ==
    /\ moogCall.name = "create"
    /\ LET r == moog_set_frequency(moog, 440, Int32Min) IN
        /\ moog' = r.h
        /\ moogCall' = [name |-> "set_frequency", arg |-> 440, ret |-> r.ret,
                        pre |-> moog, frames |-> moogFrames]
    /\ moogCalls' = moogCalls + 1
    /\ UNCHANGED <<moogAccepted, moogOn, moogOut, moogNonZero, moogFrames>>

\* moog_toggle(handle, 1), the second call of the scenario
ScenarioToggle ==
    /\ moogCall.name = "set_frequency"
    /\ LET r == moog_toggle(moog, 1) IN
        /\ moog' = r.h
        /\ moogCall' = [name |-> "toggle", arg |-> 1, ret |-> r.ret,
                        pre |-> moog, frames |-> moogFrames]
        /\ moogOn' = (moogOn \/ r.ret = 0)
    /\ moogCalls' = moogCalls + 1
    /\ UNCHANGED <<moogAccepted, moogOut, moogNonZero, moogFrames>>

\* moog_process(handle, output), once the two calls are made
ScenarioProcess ==
    /\ moogCall.name = "toggle"
    /\ moogFrames < ScenarioFrames
    /\ \E r \in {moog_process(moog, RZero, 0)} :
        /\ moog' = r.h
        /\ moogOut' = r.output
        /\ moogNonZero' = moogNonZero + NonZero(r.output)
    /\ moogFrames' = moogFrames + 1
    /\ UNCHANGED <<moogCall, moogAccepted, moogOn, moogCalls>>

-----------------------------------------------------------------------------
(* Note lookup: notes.c *)

\* notes.c:42-48
NB_NOTES == 22

NOTES_NAMES ==
    <<"A", "Ab", "Ad", "B", "Bb", "Bd",
      "C", "Cb", "Cd", "D", "Db", "Dd",
      "E", "Eb", "Ed", "F", "Fb", "Fd",
      "G", "Gb", "Gd", "R">>

\* check_note_name (notes.c:51-67)
check_note_name(note_name) ==
    IF \E i \in 1..NB_NOTES : note_name = NOTES_NAMES[i] THEN 0 ELSE -EINVAL

\* A frequency base * scale with base = C<rank> = C0 * 2^rank (notes.c:33-41)
\* and scale = 2^(k/12) is the pitch 12 * rank + k semitones above C0.
\* The value -1 that get_note stores first is no pitch.
NoPitch == [set |-> FALSE, semitones |-> 0]

Pitch(s) == [set |-> TRUE, semitones |-> s]

\* get_note (notes.c:70-153): [ret, frequency]
get_note(rank, note) ==
    IF rank \notin 0..8
    THEN [ret |-> -EINVAL, frequency |-> NoPitch]
    ELSE IF note \in {"C", "Bs"}
    THEN [ret |-> 0, frequency |-> Pitch(12 * rank + 0)]
    ELSE IF note \in {"Cs", "Dd"}
    THEN [ret |-> 0, frequency |-> Pitch(12 * rank + 1)]
    ELSE IF note = "D"
    THEN [ret |-> 0, frequency |-> Pitch(12 * rank + 2)]
    ELSE IF note \in {"Ds", "Ed"}
    THEN [ret |-> 0, frequency |-> Pitch(12 * rank + 3)]
    ELSE IF note \in {"E", "Fd"}
    THEN [ret |-> 0, frequency |-> Pitch(12 * rank + 4)]
    ELSE IF note \in {"F", "Es"}
    THEN [ret |-> 0, frequency |-> Pitch(12 * rank + 5)]
    ELSE IF note \in {"Fs", "Gd"}
    THEN [ret |-> 0, frequency |-> Pitch(12 * rank + 6)]
    ELSE IF note = "G"
    THEN [ret |-> 0, frequency |-> Pitch(12 * rank + 7)]
    ELSE IF note \in {"Gs", "Ad"}
    THEN [ret |-> 0, frequency |-> Pitch(12 * rank + 8)]
    ELSE IF note = "A"
    THEN [ret |-> 0, frequency |-> Pitch(12 * rank + 9)]
    ELSE IF note \in {"As", "Bd"}
    THEN [ret |-> 0, frequency |-> Pitch(12 * rank + 10)]
    ELSE IF note \in {"B", "Cd"}
    THEN [ret |-> 0, frequency |-> Pitch(12 * rank + 11)]
    ELSE [ret |-> -EINVAL, frequency |-> NoPitch]

\* Inputs: a letter and a suffix make the note name
NoteLetters == {"A", "B", "C", "D", "E", "F", "G", "R", "H"}

NoteSuffixes == {"", "b", "d", "s"}

NoteRanks == -1..9

NoNoteCall ==
    [rank |-> 0, letter |-> "", suffix |-> "", note |-> "", ret |-> 0,
     frequency |-> NoPitch]

InitNoteVars == noteCall = NoNoteCall

IdleNoteVars == noteCall = NoNoteCall

\* One call get_note(rank, note, &frequency)
GetNote ==
    \E rank \in NoteRanks, letter \in NoteLetters, suffix \in NoteSuffixes :
        \E r \in {get_note(rank, letter \o suffix)} :
            noteCall' = [rank |-> rank, letter |-> letter, suffix |-> suffix,
                         note |-> letter \o suffix, ret |-> r.ret,
                         frequency |-> r.frequency]

-----------------------------------------------------------------------------
(* Configuration parser: cfg_parser.c *)

\* Bound of the parser model
MaxCfgLines == 2         \* lines of a configuration file

\* cfg_parser.c:38-52; DFT_FRAME_SIZE is (int)(60 * DFT_FS * SIXTEENTH / DFT_BPM)
DFT_BPM            == 94
DFT_FS             == 48000
DFT_FRAME_SIZE     == (15 * DFT_FS) \div DFT_BPM
DFT_LP_Q           == Rat(3, 2)
DFT_LP_FC          == 400
DFT_LP_GAIN        == ROne
DFT_ATTACK_TIME    == 25
DFT_DECAY_TIME     == 15
DFT_SUSTAIN_FACTOR == Rat(7, 10)
DFT_RELEASE_TIME   == 10
DFT_OSC_MODE       == WAVE_MODE_SAW
DFT_OSC_COUPLING   == MOOG_OSC_COUPLING_FIFTH
DFT_INTENSITY      == Rat(3, 5)

\* cfg_parser.c:55-69
config_fields ==
    {"tempo", "fs", "lp_fc", "lp_Q", "lp_gain", "attack_time", "decay_time",
     "sustain", "release_time", "waveform", "coupling", "intensity"}

\* check_key (cfg_parser.c:73-87)
check_key(key) == IF key \in config_fields THEN 0 ELSE -EINVAL

\* atof and atoi of the value texts used in the files: the leading number
\* of the text, 0 when there is none; atoi stops at the decimal point
atof(value) ==
    CASE value = "120"   -> Rat(120, 1)
      [] value = "44100" -> Rat(44100, 1)
      [] value = "1000"  -> Rat(1000, 1)
      [] value = "30000" -> Rat(30000, 1)
      [] value = "3"     -> Rat(3, 1)
      [] value = "2"     -> Rat(2, 1)
      [] value = "20"    -> Rat(20, 1)
      [] value = "0.5"   -> Rat(1, 2)
      [] OTHER           -> RZero

atoi(value) == RTrunc(atof(value))

\* fill_config_element (cfg_parser.c:91-202): [ret, configuration].  Floats
\* are rationals, all the fields of struct moog_params are kept in m_params.
fill_config_element(key, value, c) ==
    CASE key = "tempo" ->
           IF RLe(atof(value), RZero)
           THEN [ret |-> -EINVAL, configuration |-> c]
           ELSE [ret |-> 0, configuration |-> [c EXCEPT !.tempo = atof(value)]]
      [] key = "fs" ->
           IF RLe(atof(value), RZero)
           THEN [ret |-> -EINVAL, configuration |-> c]
           ELSE [ret |-> 0,
                 configuration |-> [c EXCEPT !.m_params.fs = atof(value)]]
      [] key = "lp_fc" ->
           IF \/ RLe(atof(value), RZero)
              \/ RLe(RMul(c.m_params.fs, Rat(1, 2)), atof(value))
           THEN [ret |-> -EINVAL, configuration |-> c]
           ELSE [ret |-> 0,
                 configuration |-> [c EXCEPT !.m_params.fc = atof(value)]]
      [] key = "lp_Q" ->
           IF RLe(atof(value), RZero)
           THEN [ret |-> -EINVAL, configuration |-> c]
           ELSE [ret |-> 0,
                 configuration |-> [c EXCEPT !.m_params.Q = atof(value)]]
      [] key = "lp_gain" ->
           [ret |-> 0,
            configuration |-> [c EXCEPT !.m_params.gain = atof(value)]]
      [] key = "attack_time" ->
           IF atoi(value) <= 0
           THEN [ret |-> -EINVAL, configuration |-> c]
           ELSE [ret |-> 0,
                 configuration |->
                     [c EXCEPT !.m_params.attack_time = atoi(value)]]
      [] key = "decay_time" ->
           IF atoi(value) <= 0
           THEN [ret |-> -EINVAL, configuration |-> c]
           ELSE [ret |-> 0,
                 configuration |->
                     [c EXCEPT !.m_params.decay_time = atoi(value)]]
      [] key = "sustain" ->
           IF RLe(atof(value), RZero) \/ RLe(ROne, atof(value))
           THEN [ret |-> -EINVAL, configuration |-> c]
           ELSE [ret |-> 0,
                 configuration |-> [c EXCEPT !.m_params.sustain = atof(value)]]
      [] key = "release_time" ->
           IF atoi(value) <= 0
           THEN [ret |-> -EINVAL, configuration |-> c]
           ELSE [ret |-> 0,
                 configuration |->
                     [c EXCEPT !.m_params.release_time = atoi(value)]]
      [] key = "waveform" ->
           [ret |-> 0,
            configuration |->
                CASE value = "saw" ->
                       [c EXCEPT !.m_params.osc_mode = WAVE_MODE_SAW]
                  [] value = "sine" ->
                       [c EXCEPT !.m_params.osc_mode = WAVE_MODE_SINE]
                  [] value = "square" ->
                       [c EXCEPT !.m_params.osc_mode = WAVE_MODE_SQUARE]
                  [] OTHER -> c]
      [] key = "coupling" ->
           [ret |-> 0,
            configuration |->
                CASE value = "none" ->
                       [c EXCEPT !.m_params.coupling = MOOG_OSC_COUPLING_NONE]
                  [] value = "third_minor" ->
                       [c EXCEPT !.m_params.coupling =
                                     MOOG_OSC_COUPLING_THIRD_MINOR]
                  [] value = "third_major" ->
                       [c EXCEPT !.m_params.coupling =
                                     MOOG_OSC_COUPLING_THIRD_MAJOR]
                  [] value = "fifth" ->
                       [c EXCEPT !.m_params.coupling = MOOG_OSC_COUPLING_FIFTH]
                  [] value = "octave" ->
                       [c EXCEPT !.m_params.coupling =
                                     MOOG_OSC_COUPLING_OCTAVE]
                  [] OTHER -> c]
      [] key = "intensity" ->
           IF RLe(atof(value), RZero) \/ RLt(ROne, atof(value))
           THEN [ret |-> -EINVAL, configuration |-> c]
           ELSE [ret |-> 0, configuration |-> [c EXCEPT !.intensity = atof(value)]]
      [] OTHER -> [ret |-> 0, configuration |-> c]

\* get_default_config (cfg_parser.c:205-230): the configuration it leaves;
\* `intensity` is not assigned
get_default_config(c) ==
    [tempo |-> Rat(DFT_BPM, 1),
     intensity |-> c.intensity,
     m_params |->
        [fs |-> Rat(DFT_FS, 1), frame_size |-> DFT_FRAME_SIZE,
         fc |-> Rat(DFT_LP_FC, 1), Q |-> DFT_LP_Q, gain |-> DFT_LP_GAIN,
         attack_time |-> DFT_ATTACK_TIME, decay_time |-> DFT_DECAY_TIME,
         sustain |-> DFT_SUSTAIN_FACTOR, release_time |-> DFT_RELEASE_TIME,
         osc_mode |-> DFT_OSC_MODE, coupling |-> DFT_OSC_COUPLING]]

\* the end of parse_cfg (cfg_parser.c:288-289):
\* frame_size = (int)(60 * fs * SIXTEENTH / tempo)
cfg_frame_size(c) ==
    [c EXCEPT !.m_params.frame_size =
        RTrunc(Rat(15 * c.m_params.fs.n * c.tempo.d,
                   c.m_params.fs.d * c.tempo.n))]

\* the getline loop of parse_cfg (cfg_parser.c:260-286) from line i on.
\* A line is [key, value]; value "" is a line without a second token.
RECURSIVE parse_cfg_lines(_, _, _)
parse_cfg_lines(file, i, c) ==
    IF i > Len(file)
    THEN [ret |-> 0, configuration |-> cfg_frame_size(c)]
    ELSE IF check_key(file[i].key) = -EINVAL
    THEN [ret |-> -EINVAL, configuration |-> c]
    ELSE IF file[i].value = ""
    THEN parse_cfg_lines(file, i + 1, c)
    ELSE Then(fill_config_element(file[i].key, file[i].value, c),
              LAMBDA r : IF r.ret # 0
                         THEN [ret |-> -EINVAL, configuration |-> c]
                         ELSE parse_cfg_lines(file, i + 1, r.configuration))

\* parse_cfg (cfg_parser.c:233-300) on a file that opens: [ret, configuration]
parse_cfg(file, c) == parse_cfg_lines(file, 1, get_default_config(c))

\* Inputs: the lines a file is made of, and what the caller's struct cfg,
\* an automatic variable of main (lilymoog.c:80), may hold before the call
CfgLine(key, value) == [key |-> key, value |-> value]

CfgLines ==
    {CfgLine("tempo", "120"), CfgLine("tempo", "0"), CfgLine("tempo", ""),
     CfgLine("fs", "44100"), CfgLine("lp_fc", "1000"),
     CfgLine("lp_fc", "30000"), CfgLine("lp_Q", "3"),
     CfgLine("lp_gain", "0.5"), CfgLine("attack_time", "20"),
     CfgLine("decay_time", "0.5"), CfgLine("sustain", "0.5"),
     CfgLine("release_time", "20"), CfgLine("waveform", "sine"),
     CfgLine("waveform", "triangle"), CfgLine("coupling", "octave"),
     CfgLine("intensity", "0.5"), CfgLine("intensity", "2"),
     CfgLine("volume", "2")}

CfgFiles == UNION {[1..n -> CfgLines] : n \in 0..MaxCfgLines}

CfgIndeterminate(x, t) ==
    [tempo |-> x, intensity |-> x,
     m_params |->
        [fs |-> x, frame_size |-> t, fc |-> x, Q |-> x, gain |-> x,
         attack_time |-> t, decay_time |-> t, sustain |-> x,
         release_time |-> t, osc_mode |-> t, coupling |-> t]]

CfgBefore ==
    {CfgIndeterminate(RZero, 0), CfgIndeterminate(Rat(3, 5), 3),
     CfgIndeterminate(Rat(-7, 1), -7)}

NoCfgCall ==
    [file |-> << >>, done |-> FALSE, ret |-> 0,
     configuration |-> CfgIndeterminate(RZero, 0)]

\* main before its call of parse_cfg (lilymoog.c:80-151)
InitCfgVars ==
    \E file \in CfgFiles, before \in CfgBefore :
        cfgCall = [file |-> file, done |-> FALSE, ret |-> 0,
                   configuration |-> before]

IdleCfgVars == cfgCall = NoCfgCall

\* The call parse_cfg(filename, &config) of main (lilymoog.c:151)
ParseCfg ==
    /\ ~cfgCall.done
    /\ \E r \in {parse_cfg(cfgCall.file, cfgCall.configuration)} :
          cfgCall' = [cfgCall EXCEPT !.done = TRUE, !.ret = r.ret,
                                     !.configuration = r.configuration]

-----------------------------------------------------------------------------
(* Driver: main of lilymoog.c *)

\* lilymoog.c:40-41
DFT_RANK   == 2
DFT_LENGTH == 4

\* seq_parser.h:39: -987341.5
LP_NO_UPDATE_VALUE == Rat(-1974683, 2)

\* Bounds of the driver model
DriverFrameSize == 60    \* frame_size of the configuration
MaxDriverFill   == 1     \* largest PREFILL and POSTFILL

\* Inputs: the configuration (fs = 3520 Hz makes the notes A4 and A5 the
\* eighth and the quarter of fs, tempo 880 gives frames of 60 samples, the
\* cutoff is fs / 4), the output intensity and the sequence
DriverParams ==
    [fs : {3520}, frame_size : {DriverFrameSize},
     fc : {880}, Q : {Rat(3, 2)},
     attack_time : {25}, decay_time : {15}, sustain : {Rat(7, 10)},
     release_time : {10},
     osc_mode : {WAVE_MODE_SAW, WAVE_MODE_SINE, WAVE_MODE_SQUARE},
     coupling : {MOOG_OSC_COUPLING_NONE}]

DriverIntensity == Rat(1, 2)

\* struct event (seq_parser.h:45-53)
Event(note, len_update, rank_update, q_update, fc_update, gain_update) ==
    [note |-> note, len_update |-> len_update, rank_update |-> rank_update,
     q_update |-> q_update, fc_update |-> fc_update,
     gain_update |-> gain_update]

Note(note, len_update, rank_update) ==
    Event(note, len_update, rank_update, LP_NO_UPDATE_VALUE,
          LP_NO_UPDATE_VALUE, LP_NO_UPDATE_VALUE)

DriverSequences ==
    {<<Note("A", 0, 2), Note("A", 0, 1), Note("R", 0, 0)>>,
     <<Note("A", 0, 2), Note("A", 5, 1), Note("A", 2, -1)>>,
     <<Note("A", 2, 2), Note("A", 0, 1), Note("A", 0, -1)>>,
     <<Note("A", 1, 2), Note("A", 0, 0)>>,
     <<Event("A", 0, 2, Rat(3, 1), LP_NO_UPDATE_VALUE, LP_NO_UPDATE_VALUE),
       Event("R", 0, 0, LP_NO_UPDATE_VALUE, LP_NO_UPDATE_VALUE,
             Rat(2000, 1))>>,
     <<Event("A", 0, 2, LP_NO_UPDATE_VALUE, LP_NO_UPDATE_VALUE,
             Rat(880, 1)),
       Event("A", 0, 1, Rat(3, 1), Rat(880, 1), Rat(2000, 1))>>,
     <<Event("A", 0, 2, LP_NO_UPDATE_VALUE, Rat(880, 1),
             LP_NO_UPDATE_VALUE),
       Event("A", 0, 0, LP_NO_UPDATE_VALUE, Rat(2000, 1),
             LP_NO_UPDATE_VALUE)>>,
     <<Note("Ab", 0, 2)>>,
     <<Note("A", 0, 2), Note("A", 0, 5)>>,
     << >>}

\* the float base * scale of get_note (notes.c:149) for the A notes, which
\* the model keeps as a whole number of Hz: 55 * 2^(rank - 1) from rank 1 on
note_hz(frequency) ==
    CASE frequency.semitones % 12 = 9 ->
           (55 * 2^(frequency.semitones \div 12)) \div 2

\* the float of an event as a cutoff; the values of the model are whole
FOfRat(x) == FNum(x.n \div x.d)

\* "Update specified parameters" (lilymoog.c:255-261): the fc, Q and gain
\* passed to moog_filter_set_parameters, p being the parameters read
driver_filter_args(p, event) ==
    [Q |-> IF event.q_update # LP_NO_UPDATE_VALUE
           THEN event.q_update ELSE p.Q,
     fc |-> IF event.gain_update # LP_NO_UPDATE_VALUE
            THEN FOfRat(event.gain_update)
            ELSE IF event.fc_update # LP_NO_UPDATE_VALUE
            THEN FOfRat(event.fc_update)
            ELSE p.fc,
     gain |-> p.gain]

\* "Silence / note update" (lilymoog.c:213-237): [ret, h, rank, frequency];
\* frequency is the one passed to moog_set_frequency, 0 when it is not called
driver_note(h, event, rank) ==
    IF event.note = "R"
    THEN [ret |-> 0, h |-> moog_toggle(h, 0).h, rank |-> rank,
          frequency |-> 0]
    ELSE Then(get_note(rank + event.rank_update, event.note), LAMBDA n :
         IF n.ret # 0
         THEN [ret |-> n.ret, h |-> h, rank |-> rank + event.rank_update,
               frequency |-> 0]
         ELSE Then(moog_toggle(h, 1), LAMBDA t :
              IF t.ret # 0
              THEN [ret |-> t.ret, h |-> t.h,
                    rank |-> rank + event.rank_update, frequency |-> 0]
              ELSE Then(moog_set_frequency(t.h, note_hz(n.frequency),
                                           Int32Min), LAMBDA f :
                   [ret |-> f.ret, h |-> f.h,
                    rank |-> rank + event.rank_update,
                    frequency |-> note_hz(n.frequency)])))

\* "Low pass filter parameters update" (lilymoog.c:240-268):
\* [ret, h, called, args]
driver_filter(h, event) ==
    IF /\ event.q_update = LP_NO_UPDATE_VALUE
       /\ event.fc_update = LP_NO_UPDATE_VALUE
       /\ event.gain_update = LP_NO_UPDATE_VALUE
    THEN [ret |-> 0, h |-> h, called |-> FALSE,
          args |-> moog_filter_get_parameters(h)]
    ELSE Then(driver_filter_args(moog_filter_get_parameters(h), event),
              LAMBDA a :
         Then(moog_filter_set_parameters(h, a.fc, a.Q, a.gain, 0), LAMBDA r :
              [ret |-> r.ret, h |-> r.h, called |-> TRUE, args |-> a]))

NoDrvSet ==
    [called |-> FALSE, event |-> Note("R", 0, 0),
     cur |-> [fc |-> FNum(0), Q |-> RZero, gain |-> RZero],
     args |-> [fc |-> FNum(0), Q |-> RZero, gain |-> RZero]]

NoDrv ==
    [pc |-> "exit", i |-> 0, j |-> 0, rank |-> 0, length |-> 0,
     g_ret |-> "EXIT_SUCCESS", events |-> << >>, nb_prefill_frames |-> 0,
     nb_postfill_frames |-> 0]

NoDrvReq ==
    [frequency |-> 0, previous |-> 0,
     filter |-> [fc |-> FNum(0), Q |-> RZero, gain |-> RZero]]

\* main once the voice is created (lilymoog.c:176-193)
InitDriverVars ==
    /\ \E p \in DriverParams : moog = moog_create(p, TRUE, Int32Min)
    /\ moogCall = NoMoogCall
    /\ moogAccepted = RZero
    /\ moogOn = FALSE
    /\ moogOut = << >>
    /\ moogNonZero = 0
    /\ moogFrames = 0
    /\ moogCalls = 0
    /\ \E events \in DriverSequences, pre \in 0..MaxDriverFill,
          post \in 0..MaxDriverFill :
          drv = [pc |-> "start", i |-> 0, j |-> 0, rank |-> DFT_RANK,
                 length |-> DFT_LENGTH, g_ret |-> "EXIT_SUCCESS",
                 events |-> events, nb_prefill_frames |-> pre,
                 nb_postfill_frames |-> post]
    /\ drvSet = NoDrvSet
    /\ drvReq = [frequency |-> 0, previous |-> 0,
                 filter |-> moog_filter_get_parameters(moog)]
    /\ drvMid = FALSE

IdleDrvVars ==
    /\ drv = NoDrv
    /\ drvSet = NoDrvSet
    /\ drvReq = NoDrvReq
    /\ drvMid = FALSE

\* where main goes once the pre-fill loop is over, and once an event's
\* output loop is over
DriverAfter(i) ==
    IF i < Len(drv.events) THEN "event" ELSE "post"

\* "Set output intensity" and the trigger OFF before the pre-fill
\*                                                   (lilymoog.c:195-199)
DriverStart ==
    /\ drv.pc = "start"
    /\ moog' = moog_toggle(moog_set_intensity(moog, DriverIntensity).h, 0).h
    /\ drv' = [drv EXCEPT !.pc = IF drv.nb_prefill_frames > 0
                                 THEN "prefill" ELSE DriverAfter(0)]
    /\ UNCHANGED <<moogCall, moogAccepted, moogOn, moogOut, moogNonZero,
                   moogFrames, moogCalls, drvSet, drvReq, drvMid>>

\* the frame of moog_process(moog, output_frame) and whether the frequency
\* the voice reports changed after its first sample: [h, output, mid]
driver_frame(h) ==
    Then(moog_process(h, RZero, 0), LAMBDA r :
         [h |-> r.h, output |-> r.output,
          mid |-> wave_gen_get_frequency(wave_gen_process(h.osc1, 1).h)
                     # moog_get_frequency(r.h)])

\* One iteration of the pre-fill loop (lilymoog.c:200-206)
DriverPrefill ==
    /\ drv.pc = "prefill"
    /\ \E r \in {driver_frame(moog)} :
          /\ moog' = r.h
          /\ moogOut' = r.output
          /\ drvMid' = r.mid
    /\ moogFrames' = moogFrames + 1
    /\ drv' = IF drv.j + 1 < drv.nb_prefill_frames
              THEN [drv EXCEPT !.j = drv.j + 1]
              ELSE [drv EXCEPT !.j = 0, !.pc = DriverAfter(0)]
    /\ UNCHANGED <<moogCall, moogAccepted, moogOn, moogNonZero, moogCalls,
                   drvSet, drvReq>>

\* The controls of one iteration of the main loop: note, filter parameters
\* and length (lilymoog.c:211-272)
DriverEvent ==
    /\ drv.pc = "event"
    /\ \E event \in {drv.events[drv.i + 1]} :
       \E n \in {driver_note(moog, event, drv.rank)} :
       \E f \in {IF n.ret # 0
                 THEN [ret |-> 0, h |-> n.h, called |-> FALSE,
                       args |-> moog_filter_get_parameters(n.h)]
                 ELSE driver_filter(n.h, event)} :
          /\ moog' = f.h
          /\ drv' = IF n.ret # 0 \/ f.ret # 0
                    THEN [drv EXCEPT !.pc = "exit", !.rank = n.rank,
                                     !.g_ret = "EXIT_FAILURE"]
                    ELSE [drv EXCEPT !.pc = "frames", !.j = 0,
                                     !.rank = n.rank,
                                     !.length = IF event.len_update # 0
                                                THEN event.len_update
                                                ELSE drv.length]
          /\ drvSet' = IF f.called
                       THEN [called |-> TRUE, event |-> event,
                             cur |-> moog_filter_get_parameters(n.h),
                             args |-> f.args]
                       ELSE drvSet
          /\ drvReq' = [frequency |-> IF n.frequency # 0 /\ n.ret = 0
                                      THEN n.frequency ELSE drvReq.frequency,
                        previous |-> IF /\ n.frequency # 0
                                        /\ n.ret = 0
                                        /\ n.frequency # drvReq.frequency
                                     THEN drvReq.frequency
                                     ELSE drvReq.previous,
                        filter |-> IF f.called /\ f.ret = 0
                                   THEN f.args ELSE drvReq.filter]
    /\ UNCHANGED <<moogCall, moogAccepted, moogOn, moogOut, moogNonZero,
                   moogFrames, moogCalls, drvMid>>

\* One iteration of the output loop of an event (lilymoog.c:275-281)
DriverFrame ==
    /\ drv.pc = "frames"
    /\ \E r \in {driver_frame(moog)} :
          /\ moog' = r.h
          /\ moogOut' = r.output
          /\ drvMid' = r.mid
    /\ moogFrames' = moogFrames + 1
    /\ drv' = IF drv.j + 1 < drv.length
              THEN [drv EXCEPT !.j = drv.j + 1]
              ELSE [drv EXCEPT !.j = 0, !.i = drv.i + 1,
                               !.pc = DriverAfter(drv.i + 1)]
    /\ UNCHANGED <<moogCall, moogAccepted, moogOn, moogNonZero, moogCalls,
                   drvSet, drvReq>>

\* The trigger OFF before the post-fill (lilymoog.c:286)
DriverPost ==
    /\ drv.pc = "post"
    /\ moog' = moog_toggle(moog, 0).h
    /\ drv' = [drv EXCEPT !.pc = IF drv.nb_postfill_frames > 0
                                 THEN "postfill" ELSE "exit"]
    /\ UNCHANGED <<moogCall, moogAccepted, moogOn, moogOut, moogNonZero,
                   moogFrames, moogCalls, drvSet, drvReq, drvMid>>

\* One iteration of the post-fill loop (lilymoog.c:287-293)
DriverPostfill ==
    /\ drv.pc = "postfill"
    /\ \E r \in {driver_frame(moog)} :
          /\ moog' = r.h
          /\ moogOut' = r.output
          /\ drvMid' = r.mid
    /\ moogFrames' = moogFrames + 1
    /\ drv' = IF drv.j + 1 < drv.nb_postfill_frames
              THEN [drv EXCEPT !.j = drv.j + 1]
              ELSE [drv EXCEPT !.j = 0, !.pc = "exit"]
    /\ UNCHANGED <<moogCall, moogAccepted, moogOn, moogNonZero, moogCalls,
                   drvSet, drvReq>>

-----------------------------------------------------------------------------
(* Specifications: one per component *)

InitAdsr ==
    /\ InitAdsrVars /\ IdleSawVars /\ IdleLpVars /\ IdleSineVars
    /\ IdleMoogVars /\ IdleWaveVars /\ IdleNoteVars /\ IdleCfgVars
    /\ IdleDrvVars /\ IdleSmpVars /\ IdleSqVars /\ IdleTwinVars
NextAdsr ==
    \/ AdsrToggle
           /\ UNCHANGED <<sawVars, lpVars, sineVars, moogVars, waveVars, noteVars, cfgVars,
                        drvVars, smpVars, sqVars, twinVars>>
    \/ AdsrProcess
           /\ UNCHANGED <<sawVars, lpVars, sineVars, moogVars, waveVars, noteVars, cfgVars,
                        drvVars, smpVars, sqVars, twinVars>>
SpecAdsr == InitAdsr /\ [][NextAdsr]_vars

InitSaw ==
    /\ InitSawVars /\ IdleAdsrVars /\ IdleLpVars /\ IdleSineVars
    /\ IdleMoogVars /\ IdleWaveVars /\ IdleNoteVars /\ IdleCfgVars
    /\ IdleDrvVars /\ IdleSmpVars /\ IdleSqVars /\ IdleTwinVars
NextSaw ==
    \/ SawSetFrequency
           /\ UNCHANGED <<adsrVars, lpVars, sineVars, moogVars, waveVars, noteVars, cfgVars,
                        drvVars, smpVars, sqVars, twinVars>>
    \/ SawSetIntensity
           /\ UNCHANGED <<adsrVars, lpVars, sineVars, moogVars, waveVars, noteVars, cfgVars,
                        drvVars, smpVars, sqVars, twinVars>>
    \/ SawProcess
           /\ UNCHANGED <<adsrVars, lpVars, sineVars, moogVars, waveVars, noteVars, cfgVars,
                        drvVars, smpVars, sqVars, twinVars>>
SpecSaw == InitSaw /\ [][NextSaw]_vars

InitSine ==
    /\ InitSineVars /\ IdleAdsrVars /\ IdleSawVars /\ IdleLpVars
    /\ IdleMoogVars /\ IdleWaveVars /\ IdleNoteVars /\ IdleCfgVars
    /\ IdleDrvVars /\ IdleSmpVars /\ IdleSqVars /\ IdleTwinVars
NextSine ==
    \/ SineSetFrequency
           /\ UNCHANGED <<adsrVars, sawVars, lpVars, moogVars, waveVars, noteVars, cfgVars,
                        drvVars, smpVars, sqVars, twinVars>>
    \/ SineProcess
           /\ UNCHANGED <<adsrVars, sawVars, lpVars, moogVars, waveVars, noteVars, cfgVars,
                        drvVars, smpVars, sqVars, twinVars>>
SpecSine == InitSine /\ [][NextSine]_vars

InitLpf ==
    /\ InitLpVars /\ IdleAdsrVars /\ IdleSawVars /\ IdleSineVars
    /\ IdleMoogVars /\ IdleWaveVars /\ IdleNoteVars /\ IdleCfgVars
    /\ IdleDrvVars /\ IdleSmpVars /\ IdleSqVars /\ IdleTwinVars
NextLpf ==
    \/ LpUpdate
           /\ UNCHANGED <<adsrVars, sawVars, sineVars, moogVars, waveVars, noteVars, cfgVars,
                        drvVars, smpVars, sqVars, twinVars>>
    \/ LpStartFcSweep
           /\ UNCHANGED <<adsrVars, sawVars, sineVars, moogVars, waveVars, noteVars, cfgVars,
                        drvVars, smpVars, sqVars, twinVars>>
    \/ LpProcess
           /\ UNCHANGED <<adsrVars, sawVars, sineVars, moogVars, waveVars, noteVars, cfgVars,
                        drvVars, smpVars, sqVars, twinVars>>
SpecLpf == InitLpf /\ [][NextLpf]_vars

InitVoice ==
    /\ InitMoogVars /\ IdleAdsrVars /\ IdleSawVars /\ IdleLpVars
    /\ IdleSineVars /\ IdleWaveVars /\ IdleNoteVars /\ IdleCfgVars
    /\ IdleDrvVars /\ IdleSmpVars /\ IdleSqVars /\ IdleTwinVars
NextVoice ==
    \/ MoogSetFrequency
           /\ UNCHANGED <<adsrVars, sawVars, lpVars, sineVars, waveVars, noteVars, cfgVars,
                        drvVars, smpVars, sqVars, twinVars>>
    \/ MoogSetIntensity
           /\ UNCHANGED <<adsrVars, sawVars, lpVars, sineVars, waveVars, noteVars, cfgVars,
                        drvVars, smpVars, sqVars, twinVars>>
    \/ MoogToggle
           /\ UNCHANGED <<adsrVars, sawVars, lpVars, sineVars, waveVars, noteVars, cfgVars,
                        drvVars, smpVars, sqVars, twinVars>>
    \/ MoogFilterSetParameters
           /\ UNCHANGED <<adsrVars, sawVars, lpVars, sineVars, waveVars, noteVars, cfgVars,
                        drvVars, smpVars, sqVars, twinVars>>
    \/ MoogFilterStartFcSweep
           /\ UNCHANGED <<adsrVars, sawVars, lpVars, sineVars, waveVars, noteVars, cfgVars,
                        drvVars, smpVars, sqVars, twinVars>>
    \/ MoogProcess
           /\ UNCHANGED <<adsrVars, sawVars, lpVars, sineVars, waveVars, noteVars, cfgVars,
                        drvVars, smpVars, sqVars, twinVars>>
SpecVoice == InitVoice /\ [][NextVoice]_vars

InitScenario ==
    /\ InitScenarioVars /\ IdleAdsrVars /\ IdleSawVars /\ IdleLpVars
    /\ IdleSineVars /\ IdleWaveVars /\ IdleNoteVars /\ IdleCfgVars
    /\ IdleDrvVars /\ IdleSmpVars /\ IdleSqVars /\ IdleTwinVars
NextScenario ==
    \/ ScenarioSetFrequency
           /\ UNCHANGED <<adsrVars, sawVars, lpVars, sineVars, waveVars, noteVars, cfgVars,
                        drvVars, smpVars, sqVars, twinVars>>
    \/ ScenarioToggle
           /\ UNCHANGED <<adsrVars, sawVars, lpVars, sineVars, waveVars, noteVars, cfgVars,
                        drvVars, smpVars, sqVars, twinVars>>
    \/ ScenarioProcess
           /\ UNCHANGED <<adsrVars, sawVars, lpVars, sineVars, waveVars, noteVars, cfgVars,
                        drvVars, smpVars, sqVars, twinVars>>
SpecScenario == InitScenario /\ [][NextScenario]_vars

InitWave ==
    /\ InitWaveVars /\ IdleAdsrVars /\ IdleSawVars /\ IdleLpVars
    /\ IdleSineVars /\ IdleMoogVars /\ IdleNoteVars /\ IdleCfgVars
    /\ IdleDrvVars /\ IdleSmpVars /\ IdleSqVars /\ IdleTwinVars
NextWave ==
    \/ WaveSetFrequency
           /\ UNCHANGED <<adsrVars, sawVars, lpVars, sineVars, moogVars, noteVars, cfgVars,
                        drvVars, smpVars, sqVars, twinVars>>
    \/ WaveProcess
           /\ UNCHANGED <<adsrVars, sawVars, lpVars, sineVars, moogVars, noteVars, cfgVars,
                        drvVars, smpVars, sqVars, twinVars>>
SpecWave == InitWave /\ [][NextWave]_vars

InitImpulse ==
    /\ InitImpulseVars /\ IdleAdsrVars /\ IdleSawVars /\ IdleSineVars
    /\ IdleMoogVars /\ IdleWaveVars /\ IdleNoteVars /\ IdleCfgVars
    /\ IdleDrvVars /\ IdleSmpVars /\ IdleSqVars /\ IdleTwinVars
NextImpulse ==
    \/ ImpulseProcess
           /\ UNCHANGED <<adsrVars, sawVars, sineVars, moogVars, waveVars, noteVars, cfgVars,
                        drvVars, smpVars, sqVars, twinVars>>
SpecImpulse == InitImpulse /\ [][NextImpulse]_vars

InitNotes ==
    /\ InitNoteVars /\ IdleAdsrVars /\ IdleSawVars /\ IdleLpVars
    /\ IdleSineVars /\ IdleMoogVars /\ IdleWaveVars /\ IdleCfgVars
    /\ IdleDrvVars /\ IdleSmpVars /\ IdleSqVars /\ IdleTwinVars
NextNotes ==
    \/ GetNote
           /\ UNCHANGED <<adsrVars, sawVars, lpVars, sineVars, moogVars, waveVars, cfgVars,
                        drvVars, smpVars, sqVars, twinVars>>
SpecNotes == InitNotes /\ [][NextNotes]_vars

InitCfg ==
    /\ InitCfgVars /\ IdleAdsrVars /\ IdleSawVars /\ IdleLpVars
    /\ IdleSineVars /\ IdleMoogVars /\ IdleWaveVars /\ IdleNoteVars
    /\ IdleDrvVars /\ IdleSmpVars /\ IdleSqVars /\ IdleTwinVars
NextCfg ==
    \/ ParseCfg
           /\ UNCHANGED <<adsrVars, sawVars, lpVars, sineVars, moogVars, waveVars, noteVars,
                        drvVars, smpVars, sqVars, twinVars>>
SpecCfg == InitCfg /\ [][NextCfg]_vars

InitSineSample ==
    /\ InitSineVars /\ InitSmpVars /\ IdleAdsrVars /\ IdleSawVars
    /\ IdleLpVars /\ IdleMoogVars /\ IdleWaveVars /\ IdleNoteVars
    /\ IdleCfgVars /\ IdleDrvVars /\ IdleSqVars /\ IdleTwinVars
NextSineSample ==
    \/ SineRequest
           /\ UNCHANGED <<adsrVars, sawVars, lpVars, moogVars, waveVars, noteVars, cfgVars,
                        drvVars, sqVars, twinVars>>
    \/ SineSample
           /\ UNCHANGED <<adsrVars, sawVars, lpVars, moogVars, waveVars, noteVars, cfgVars,
                        drvVars, sqVars, twinVars>>
SpecSineSample == InitSineSample /\ [][NextSineSample]_vars

SpecSineSampleFair ==
    InitSineSample /\ [][NextSineSample]_vars /\ WF_sineFrames(SineContinues)

InitSquare ==
    /\ InitSquareVars /\ IdleAdsrVars /\ IdleSawVars /\ IdleLpVars
    /\ IdleSineVars /\ IdleMoogVars /\ IdleWaveVars /\ IdleNoteVars
    /\ IdleCfgVars /\ IdleDrvVars /\ IdleSmpVars /\ IdleTwinVars
NextSquare ==
    \/ SquareSetFrequency
           /\ UNCHANGED <<adsrVars, sawVars, lpVars, sineVars, moogVars, waveVars, noteVars,
                        cfgVars, drvVars, smpVars, twinVars>>
    \/ SquareSetIntensity
           /\ UNCHANGED <<adsrVars, sawVars, lpVars, sineVars, moogVars, waveVars, noteVars,
                        cfgVars, drvVars, smpVars, twinVars>>
    \/ SquareProcess
           /\ UNCHANGED <<adsrVars, sawVars, lpVars, sineVars, moogVars, waveVars, noteVars,
                        cfgVars, drvVars, smpVars, twinVars>>
SpecSquare == InitSquare /\ [][NextSquare]_vars

InitLpfMid ==
    /\ InitLpVars /\ IdleAdsrVars /\ IdleSawVars /\ IdleSineVars
    /\ IdleMoogVars /\ IdleWaveVars /\ IdleNoteVars /\ IdleCfgVars
    /\ IdleDrvVars /\ IdleSmpVars /\ IdleSqVars /\ IdleTwinVars
NextLpfMid ==
    \/ LpMidUpdate
           /\ UNCHANGED <<adsrVars, sawVars, sineVars, moogVars, waveVars, noteVars, cfgVars,
                        drvVars, smpVars, sqVars, twinVars>>
    \/ LpMidStartFcSweep
           /\ UNCHANGED <<adsrVars, sawVars, sineVars, moogVars, waveVars, noteVars, cfgVars,
                        drvVars, smpVars, sqVars, twinVars>>
    \/ LpMidProcess
           /\ UNCHANGED <<adsrVars, sawVars, sineVars, moogVars, waveVars, noteVars, cfgVars,
                        drvVars, smpVars, sqVars, twinVars>>
SpecLpfMid == InitLpfMid /\ [][NextLpfMid]_vars

SpecLpfMidFair ==
    InitLpfMid /\ [][NextLpfMid]_vars /\ WF_lpSamples(LpMidContinues)

InitLpfGain ==
    /\ InitGainVars /\ IdleAdsrVars /\ IdleSawVars /\ IdleSineVars
    /\ IdleMoogVars /\ IdleWaveVars /\ IdleNoteVars /\ IdleCfgVars
    /\ IdleDrvVars /\ IdleSmpVars /\ IdleSqVars
NextLpfGain ==
    \/ GainUpdate
           /\ UNCHANGED <<adsrVars, sawVars, sineVars, moogVars, waveVars, noteVars, cfgVars,
                        drvVars, smpVars, sqVars>>
    \/ GainStartFcSweep
           /\ UNCHANGED <<adsrVars, sawVars, sineVars, moogVars, waveVars, noteVars, cfgVars,
                        drvVars, smpVars, sqVars>>
    \/ GainProcess
           /\ UNCHANGED <<adsrVars, sawVars, sineVars, moogVars, waveVars, noteVars, cfgVars,
                        drvVars, smpVars, sqVars>>
SpecLpfGain == InitLpfGain /\ [][NextLpfGain]_vars

InitDriver ==
    /\ InitDriverVars /\ IdleAdsrVars /\ IdleSawVars /\ IdleLpVars
    /\ IdleSineVars /\ IdleWaveVars /\ IdleNoteVars /\ IdleCfgVars
    /\ IdleSmpVars /\ IdleSqVars /\ IdleTwinVars
NextDriver ==
    \/ DriverStart
           /\ UNCHANGED <<adsrVars, sawVars, lpVars, sineVars, waveVars, noteVars, cfgVars,
                        smpVars, sqVars, twinVars>>
    \/ DriverPrefill
           /\ UNCHANGED <<adsrVars, sawVars, lpVars, sineVars, waveVars, noteVars, cfgVars,
                        smpVars, sqVars, twinVars>>
    \/ DriverEvent
           /\ UNCHANGED <<adsrVars, sawVars, lpVars, sineVars, waveVars, noteVars, cfgVars,
                        smpVars, sqVars, twinVars>>
    \/ DriverFrame
           /\ UNCHANGED <<adsrVars, sawVars, lpVars, sineVars, waveVars, noteVars, cfgVars,
                        smpVars, sqVars, twinVars>>
    \/ DriverPost
           /\ UNCHANGED <<adsrVars, sawVars, lpVars, sineVars, waveVars, noteVars, cfgVars,
                        smpVars, sqVars, twinVars>>
    \/ DriverPostfill
           /\ UNCHANGED <<adsrVars, sawVars, lpVars, sineVars, waveVars, noteVars, cfgVars,
                        smpVars, sqVars, twinVars>>
SpecDriver == InitDriver /\ [][NextDriver]_vars


-----------------------------------------------------------------------------
(* Properties of the envelope *)

ValidIntensity(i) == RLe(RZero, i) /\ RLe(i, ROne)

\* the last toggle call was an accepted call with these arguments
ToggledFrom(state, preStates) ==
    /\ adsrCall.state = state
    /\ adsrCall.pre.alloc
    /\ ValidIntensity(adsrCall.intensity)
    /\ adsrCall.pre.state \in preStates

\* C1: with attack_len >= 1 and decay_len >= 1, after a trigger ON in IDLE
\* and no further toggle, the state is SUSTAIN exactly when at least
\* attack_len + decay_len samples have been processed, and every sample
\* emitted at a 0-based position >= attack_len + decay_len equals
\* sustain * intensity.
C1_SustainAfterAttackDecay ==
    (ToggledFrom(1, {ADSR_IDLE}) /\ adsr.attack_len >= 1 /\ adsr.decay_len >= 1)
    => /\ (adsr.state = ADSR_SUSTAIN)
            <=> (adsrSince >= adsr.attack_len + adsr.decay_len)
       /\ (adsr.state # ADSR_SUSTAIN)
            => adsr.state = (IF adsrSince < adsr.attack_len
                             THEN ADSR_ATTACK ELSE ADSR_DECAY)
       /\ (adsrSince > adsr.attack_len + adsr.decay_len)
            => adsrOut = RMul(adsr.sustain, adsrCall.intensity)

C1_Witness ==
    /\ ToggledFrom(1, {ADSR_IDLE})
    /\ adsr.attack_len = 3 /\ adsr.decay_len = 2
    /\ adsrSince = 7
    /\ adsr.state = ADSR_SUSTAIN
    /\ adsrOut = Rat(21, 50)

\* C2: from SUSTAIN, a trigger OFF followed by release_len >= 1 processed
\* samples leaves the envelope IDLE with factor 0; it is RELEASE after any
\* smaller number of samples, and every sample emitted afterwards is 0.
C2_ReleaseToIdle ==
    (ToggledFrom(0, {ADSR_SUSTAIN}) /\ adsr.release_len >= 1)
    => /\ (adsrSince < adsr.release_len) => adsr.state = ADSR_RELEASE
       /\ (adsrSince >= adsr.release_len)
            => (adsr.state = ADSR_IDLE /\ adsr.state_factor = RZero)
       /\ (adsrSince > adsr.release_len) => adsrOut = RZero

C2_Witness ==
    /\ ToggledFrom(0, {ADSR_SUSTAIN})
    /\ adsrCall.pre.intensity = ROne
    /\ adsr.release_len = 3
    /\ adsrSince = 5
    /\ adsr.state = ADSR_IDLE
    /\ adsrOut = RZero

C5_ToggleOffJumpsToSustain ==
    ToggledFrom(0, {ADSR_ATTACK, ADSR_DECAY, ADSR_SUSTAIN})
    => /\ adsrCall.ret = 0
       /\ (adsrSince = 0)
            => /\ adsr.state = ADSR_RELEASE
               /\ adsr.index = 0
               /\ adsr.state_factor = adsr.sustain
               /\ adsr.intensity = adsrCall.pre.intensity
       /\ (adsrSince = 1)
            => adsrOut = RMul(adsr.sustain, adsrCall.pre.intensity)

C5_Witness ==
    /\ ToggledFrom(0, {ADSR_ATTACK})
    /\ adsrCall.pre.state_factor = Rat(1, 3)
    /\ adsrCall.pre.intensity = ROne
    /\ adsrSince = 1
    /\ adsrOut = Rat(7, 10)

\* C19: after a trigger ON accepted in IDLE (intensity in [0,1]) and no
\* further toggle, the first emitted gain is 0 and each of the following
\* gains up to the attack_len-th is greater than or equal to the one before.
C19_AttackMonotone ==
    [][(/\ ToggledFrom(1, {ADSR_IDLE})
        /\ adsrCall.ret = 0
        /\ adsrCall' = adsrCall
        /\ adsrSince' = adsrSince + 1
        /\ adsrSince' <= adsr.attack_len)
       => IF adsrSince = 0
          THEN adsrOut' = RZero
          ELSE RLe(adsrOut, adsrOut')]_vars

C19_Witness ==
    /\ ToggledFrom(1, {ADSR_IDLE})
    /\ adsrCall.intensity = Rat(3, 5)
    /\ adsr.attack_len = 3
    /\ adsrSince = 3
    /\ adsrOut = Rat(2, 5)

\* C36: whenever the attack, decay or release table is read, the index is
\* smaller than the number of entries of that table, also for the handles
\* created with a zero-length table.
C36_TableIndexInRange == adsrOob = FALSE

-----------------------------------------------------------------------------
(* Properties of the saw oscillator *)

\* C10: at a fixed frequency f0 in (0, fs/2) and a fixed intensity i, every
\* sample produced by saw_gen_process lies in
\* [-floor(i * (2^23 - 1)), +floor(i * (2^23 - 1))].
C10_SawWithinAmplitude ==
    (sawGen.alloc /\ sawSteady /\ 0 < sawGen.f0 /\ 2 * sawGen.f0 < sawGen.fs)
    => \A k \in 1..Len(sawOut) :
          /\ -RTrunc(RMul(sawGen.intensity, Rat(QS823_MAX, 1))) <= sawOut[k]
          /\ sawOut[k] <= RTrunc(RMul(sawGen.intensity, Rat(QS823_MAX, 1)))

\* C11: at a fixed frequency f0 in (0, fs/2) and a fixed intensity > 0, each
\* sample of a frame equals the previous one minus step, modulo the span
\* i_max - i_min (the wrap-around keeps the phase).
C11_SawWrapKeepsPhase ==
    (/\ sawGen.alloc /\ sawSteady
     /\ 0 < sawGen.f0 /\ 2 * sawGen.f0 < sawGen.fs
     /\ sawGen.i_max > sawGen.i_min)
    => \A k \in 1..(Len(sawOut) - 1) :
          (sawOut[k] - sawGen.step - sawOut[k + 1])
              % (sawGen.i_max - sawGen.i_min) = 0

-----------------------------------------------------------------------------
(* Properties of the sine oscillator *)

\* the last call was sine_gen_set_frequency on a generator with a frequency
\* transition pending or in progress, and nothing was processed since
SineCalledInTransition ==
    /\ sineCalls > 0
    /\ sineCall.pre.alloc
    /\ sineCall.pre.frequency_transition # 0
    /\ sineCall.frames = sineFrames

\* C20 as stated: sine_gen_set_frequency called while a frequency transition
\* is pending or in progress returns -EAGAIN and leaves the pending target,
\* the transition phase table and the transition progress unchanged.
C20_TransitionAlwaysEagain ==
    SineCalledInTransition
    => /\ sineCall.ret = -EAGAIN
       /\ sineGen.new_f0 = sineCall.pre.new_f0
       /\ sineGen.frequency_transition_phase
              = sineCall.pre.frequency_transition_phase
       /\ sineGen.frequency_transition_index
              = sineCall.pre.frequency_transition_index
       /\ sineGen.frequency_transition_start
              = sineCall.pre.frequency_transition_start

\* C20 amended: such a call returns -EAGAIN when its frequency is in
\* [0, fs/2) and -EINVAL otherwise, and leaves the whole generator (pending
\* target, phase table, progress and flag included) unchanged.
C20_TransitionRejected ==
    SineCalledInTransition
    => /\ sineCall.ret =
              (IF 0 <= sineCall.f0 /\ 2 * sineCall.f0 < sineGen.fs
               THEN -EAGAIN ELSE -EINVAL)
       /\ sineGen = sineCall.pre
       /\ sineGen.frequency_transition = 1

C20_Witness ==
    /\ SineCalledInTransition
    /\ sineCall.f0 = 6000
    /\ sineCall.ret = -EAGAIN
    /\ sineGen.new_f0 = 12000
    /\ sineGen.frequency_transition_start = 1
    /\ sineGen.frequency_transition_index > 0

\* Steps of the sample-by-sample runs
SineSampleStep == sineFrames' = sineFrames + 1

SineRequestAccepted == sineCalls' = sineCalls + 1 /\ sineCall'.ret = 0

\* the last processed sample was an ascending sign change, as the trackers
\* of the generator h hold it
SineCrossedUp(h) == h.sign_change # 0 /\ h.ascending # 0

\* an accepted request leaves a transition pending: nothing else changes
SinePendingAfterRequest ==
    /\ sineGen'.frequency_transition = 1
    /\ sineGen'.frequency_transition_start = 0
    /\ sineGen'.frequency_transition_index = 0
    /\ sineGen'.new_f0 = sineCall'.f0
    /\ sineGen'.f0 = sineGen.f0
    /\ sineGen'.index = sineGen.index

\* the trackers hold an ascending sign change exactly when the output went
\* from a negative sample to a non-negative one
SineTrackersFollowOutput ==
    SineSampleStep
    => (SineCrossedUp(sineGen')
        <=> /\ sineOut # << >>
            /\ sineOut[1] < 0
            /\ sineOut'[1] >= 0)

\* a pending transition waits: phase progression and frequency as without it
SinePendingWaits ==
    /\ SineSampleStep
    /\ sineGen.frequency_transition # 0
    /\ sineGen.frequency_transition_start = 0
    /\ ~SineCrossedUp(sineGen)
    => /\ sineGen'.frequency_transition = 1
       /\ sineGen'.frequency_transition_start = 0
       /\ sineGen'.frequency_transition_index = 0
       /\ sineGen'.f0 = sineGen.f0
       /\ sineGen'.new_f0 = sineGen.new_f0
       /\ sineGen'.index = sineGen.index + 1
       /\ sineOut'[1] = sine_value(sineGen'.intensity, sine_phase(sineGen),
                                   sineGen.fs)
       /\ sineStart' = -1

\* it starts with the first sample that follows an ascending sign change
SinePendingStarts ==
    /\ SineSampleStep
    /\ sineGen.frequency_transition # 0
    /\ sineGen.frequency_transition_start = 0
    /\ SineCrossedUp(sineGen)
    => /\ sineGen'.frequency_transition = 1
       /\ sineGen'.frequency_transition_start = 1
       /\ sineGen'.frequency_transition_index = 1
       /\ sineGen'.f0 = sineGen.f0
       /\ sineGen'.index = sineGen.index
       /\ sineStart' = sineFrames

\* the samples 2..255 of the transition: the old frequency is reported
SineTransitionRuns ==
    /\ SineSampleStep
    /\ sineGen.frequency_transition_start # 0
    /\ sineGen.frequency_transition_index < FREQUENCY_TRANSITION_LEN - 1
    => /\ sineGen'.frequency_transition = 1
       /\ sineGen'.frequency_transition_start = 1
       /\ sineGen'.frequency_transition_index
              = sineGen.frequency_transition_index + 1
       /\ sineGen'.frequency_transition_index = sineFrames' - sineStart'
       /\ sineGen'.f0 = sineGen.f0
       /\ sineGen'.f0 = sineCall.pre.f0

\* the 256th sample of the transition
SineTransitionEnds ==
    /\ SineSampleStep
    /\ sineGen.frequency_transition_start # 0
    /\ sineGen.frequency_transition_index = FREQUENCY_TRANSITION_LEN - 1
    => /\ sineFrames' - sineStart = FREQUENCY_TRANSITION_LEN
       /\ sineGen'.f0 = sineCall.f0
       /\ sineGen'.frequency_transition = 0
       /\ sineGen'.frequency_transition_start = 0
       /\ sineGen'.frequency_transition_index = 0
       /\ sineGen'.frequency_transition_phase = ZeroPhase

SineTransitionSamples ==
    /\ SineTrackersFollowOutput
    /\ SinePendingWaits
    /\ SinePendingStarts
    /\ SineTransitionRuns
    /\ SineTransitionEnds

\* C31 as stated: every accepted sine frequency change stays pending, phase
\* progression and reported frequency unchanged, until the first sample that
\* follows an ascending sign change of the output; the transition then lasts
\* exactly 256 samples, the old frequency being reported during the first
\* 255, and the 256th sample makes the requested frequency the reported one
\* and clears the flags, the transition index and the phase table.
C31_AcceptedStaysPending ==
    [][/\ SineRequestAccepted => SinePendingAfterRequest
       /\ SineTransitionSamples]_vars

\* C31 amended: the above for a request accepted by a generator whose
\* frequency is not 0; a generator whose frequency is 0 takes the requested
\* frequency at once, without a transition.
C31_PendingThenTransition ==
    [][/\ SineRequestAccepted /\ sineGen.f0 # 0 => SinePendingAfterRequest
       /\ SineRequestAccepted /\ sineGen.f0 = 0
          => /\ sineGen' = [sineGen EXCEPT !.f0 = sineCall'.f0]
             /\ sineGen'.frequency_transition = 0
       /\ SineTransitionSamples]_vars

C31_Witness ==
    /\ sineCalls = 1
    /\ sineCall.ret = 0
    /\ sineCall.pre.f0 = 6000
    /\ sineCall.f0 = 12000
    /\ sineCall.frames = 3
    /\ sineGen.f0 = 12000
    /\ sineGen.frequency_transition = 0
    /\ sineStart = -1
    /\ sineFrames = 8 + FREQUENCY_TRANSITION_LEN + 1

\* C39: under continued processing every accepted sine frequency change with
\* a pending transition completes, whatever the intensity in [0,1]: the
\* transition flag is cleared and the requested frequency is reported.
C39_TransitionCompletes ==
    (sineGen.frequency_transition = 1)
        ~> (/\ sineGen.frequency_transition = 0
            /\ sineGen.f0 = sineCall.f0)

-----------------------------------------------------------------------------
(* Properties of the low-pass filter *)

\* the last filter call was `name`, made on an existing filter
LpCalled(name) == lpCall.name = name /\ lpCall.pre.alloc

\* parameters outside the documented domain of the design
BadLpParams(p) ==
    \/ p.Q.n <= 0
    \/ p.fs <= 0
    \/ p.fc.v <= 0
    \/ 2 * p.fc.v >= p.fs

\* sweep arguments outside their documented domain, for a filter running at fs
BadSweepArgs(a, fs) == a[1] <= 0 \/ 2 * a[1] >= fs \/ a[2] <= 0

\* C6: after an accepted low_pass_update followed by exactly 256 processed
\* samples and no other call, the active coefficients are the Q3.28
\* conversion of the coefficients designed for the new parameters and the
\* crossfade is finished; after fewer samples it is still in progress.
C6_CrossfadeLandsOnTarget ==
    (LpCalled("update") /\ lpCall.ret = 0)
    => /\ (lpSince < 256) => (lp.update_flag = 1 /\ lp.table_index = lpSince)
       /\ (lpSince >= 256)
            => /\ lp.coeffs = DesignedQs328(lpCall.args, 0)
               /\ lp.update_flag = 0

C6_Witness ==
    /\ LpCalled("update") /\ lpCall.ret = 0
    /\ lpCall.args = LpParams(1000, Rat(3, 2), 48000)
    /\ lpCall.pre.coeffs = Coeffs(DesignQ15[4])
    /\ lpSince = 256
    /\ lp.coeffs = Coeffs(DesignQ15[10])

\* C7: after a call low_pass_start_fc_sweep(target, total_samples) that
\* returned 0, once total_samples samples have been processed with no other
\* call, the cutoff reported by low_pass_get_parameters is target.
C7_SweepEndsOnTarget ==
    (LpCalled("sweep") /\ lpCall.ret = 0 /\ lpSince >= lpCall.args[2])
    => low_pass_get_parameters(lp).fc = FNum(lpCall.args[1])

\* C8 as stated: while the sweep flag is set, low_pass_update and
\* low_pass_start_fc_sweep both return -EAGAIN and change nothing.
C8_BusyAlwaysEagain ==
    ((LpCalled("update") \/ LpCalled("sweep"))
     /\ lpCall.pre.sweep_flag # 0 /\ lpSince = 0)
    => /\ lpCall.ret = -EAGAIN
       /\ lp = lpCall.pre

\* C8 amended: while the sweep flag is set, low_pass_update returns -EAGAIN,
\* low_pass_start_fc_sweep returns -EAGAIN when its arguments are valid and
\* -EINVAL when they are not, and both change nothing.
C8_BusyRejected ==
    ((LpCalled("update") \/ LpCalled("sweep"))
     /\ lpCall.pre.sweep_flag # 0 /\ lpSince = 0)
    => /\ lpCall.ret =
            (IF /\ lpCall.name = "sweep"
                /\ BadSweepArgs(lpCall.args, lpCall.pre.parameters.fs)
             THEN -EINVAL ELSE -EAGAIN)
       /\ lp = lpCall.pre

C8_Witness ==
    /\ LpCalled("update")
    /\ lpCall.args = LpParams(1000, Rat(3, 2), 48000)
    /\ lpCall.pre.sweep_flag = 1
    /\ lpCall.pre.sweep_length = 2
    /\ lpCall.pre.update_flag = 1
    /\ lpSince = 0
    /\ lpCall.ret = -EAGAIN

\* C9 as stated: low_pass_update with Q <= 0, fs <= 0, fc <= 0 or
\* fc >= fs/2, and low_pass_start_fc_sweep with target <= 0, target >= fs/2
\* or nb_samples <= 0, return -EINVAL and change nothing; low_pass_create
\* with such parameters returns no filter.
C9_InvalidAlwaysEinval ==
    /\ (lpCall.name = "create" /\ BadLpParams(lpCall.args)) => ~lp.alloc
    /\ (LpCalled("update") /\ BadLpParams(lpCall.args) /\ lpSince = 0)
         => (lpCall.ret = -EINVAL /\ lp = lpCall.pre)
    /\ (/\ LpCalled("sweep")
        /\ BadSweepArgs(lpCall.args, lpCall.pre.parameters.fs)
        /\ lpSince = 0)
         => (lpCall.ret = -EINVAL /\ lp = lpCall.pre)

\* C9 amended: as C9, except that low_pass_update with such parameters
\* returns -EAGAIN, not -EINVAL, while the sweep flag is set (the state is
\* unchanged in both cases).
C9_InvalidRejected ==
    /\ (lpCall.name = "create" /\ BadLpParams(lpCall.args)) => ~lp.alloc
    /\ (LpCalled("update") /\ BadLpParams(lpCall.args) /\ lpSince = 0)
         => /\ lpCall.ret = (IF lpCall.pre.sweep_flag # 0
                             THEN -EAGAIN ELSE -EINVAL)
            /\ lp = lpCall.pre
    /\ (/\ LpCalled("sweep")
        /\ BadSweepArgs(lpCall.args, lpCall.pre.parameters.fs)
        /\ lpSince = 0)
         => (lpCall.ret = -EINVAL /\ lp = lpCall.pre)

C9_Witness ==
    /\ LpCalled("update")
    /\ lpCall.args = LpParams(1000, RZero, 48000)
    /\ lpCall.pre.sweep_flag = 0
    /\ lpCall.pre.update_flag = 1
    /\ lpSince = 0
    /\ lpCall.ret = -EINVAL
    /\ lp.update_flag = 1

\* C23: in every state of a created filter the reported cutoff is a number
\* fc with 0 < fc < fs/2
C23_CutoffInRange ==
    lp.alloc =>
        /\ low_pass_get_parameters(lp).fc.k = "num"
        /\ low_pass_get_parameters(lp).fc.v > 0
        /\ 2 * low_pass_get_parameters(lp).fc.v
               < low_pass_get_parameters(lp).fs

\* C24: in no state are there both an accepted sweep that has not landed on
\* its target and an accepted low_pass_update whose crossfade is not over
C24_SweepExcludesUpdate ==
    ~(lpPending.sweep /\ lpPending.update > 0)

\* C30: the coefficients designed for accepted parameters describe a stable
\* filter: |a2| < 1 and |a1| < 1 + a2, in QS3.28 where 1 is 2^28
C30_DesignStable ==
    lp.alloc =>
        /\ Abs(lp.coeffs.a2) < 268435456
        /\ Abs(lp.coeffs.a1) < 268435456 + lp.coeffs.a2

\* the coefficient old moved towards target by table entry k - 1 of the
\* crossfade: old + (((target - old) * transition_table[k - 1]) >> 16)
LinearFrom(old, target, k) ==
    old + MulShift16(target - old, transition_table[k])

\* C34: during the crossfade of an accepted low_pass_update the active
\* coefficients progress linearly from the values they had when it started:
\* after the k-th processed sample (1 <= k <= 255) each of them is
\* old + (((target - old) * transition_table[k-1]) >> 16).
C34_LinearCrossfade ==
    (LpCalled("update") /\ lpCall.ret = 0 /\ lpSince >= 1 /\ lpSince <= 255)
    => \A c \in DOMAIN lp.coeffs :
          lp.coeffs[c] = LinearFrom(lpCall.pre.coeffs[c],
                                    DesignedQs328(lpCall.args, 0)[c],
                                    lpSince)

\* the number of crossfades of a sweep of nb_samples samples
SweepCrossfades(nb_samples) == nb_samples \div TABLE_LEN

\* C35: whatever the interleaving of low_pass_update,
\* low_pass_start_fc_sweep and low_pass_process, the crossfade index is in
\* 0..255 whenever a crossfade is in progress, and a crossfade ends exactly
\* 256 processed samples after it was started or restarted: the one of an
\* accepted update 256 samples after the call, those of an accepted sweep of
\* at least 256 samples one after the other from the call on.
C35_IndexInTable ==
    lp.alloc
    => /\ lp.update_flag # 0
          => lp.table_index >= 0 /\ lp.table_index < TABLE_LEN
       /\ LpCalled("update") /\ lpCall.ret = 0
          => /\ lpSince < TABLE_LEN
                => lp.update_flag = 1 /\ lp.table_index = lpSince
             /\ lpSince >= TABLE_LEN => lp.update_flag = 0
       /\ LpCalled("sweep") /\ lpCall.ret = 0 /\ lpCall.args[2] >= TABLE_LEN
          => /\ lpSince < TABLE_LEN * SweepCrossfades(lpCall.args[2])
                => /\ lp.update_flag = 1
                   /\ lp.table_index = lpSince % TABLE_LEN
             /\ lpSince >= TABLE_LEN * SweepCrossfades(lpCall.args[2])
                => lp.update_flag = 0

C35_Witness ==
    /\ LpCalled("update") /\ lpCall.ret = 0
    /\ lpCall.pre.update_flag = 1
    /\ lpCall.pre.table_index = 100
    /\ lpSince = TABLE_LEN
    /\ lpSamples = 100 + TABLE_LEN
    /\ lp.update_flag = 0
    /\ lp.coeffs = DesignedQs328(lpCall.args, 0)

\* C38: under continued processing every accepted sweep ends: the sweep flag
\* is cleared and no crossfade is pending, so that low_pass_update and
\* low_pass_start_fc_sweep are accepted again.
C38_SweepEnds ==
    (lp.alloc /\ lp.sweep_flag # 0)
        ~> (lp.sweep_flag = 0 /\ lp.update_flag = 0)

\* b lies between a and t, ends included
Between(a, b, t) == (a <= b /\ b <= t) \/ (t <= b /\ b <= a)

\* a sample is processed while a crossfade is running
CrossfadeSample ==
    lp.alloc /\ lp.update_flag # 0 /\ lpSamples' = lpSamples + 1

\* C37: during a crossfade every active coefficient moves monotonically
\* toward its target and never overshoots it: after each processed sample
\* it lies between its value before that sample and the target, so its
\* distance to the target does not grow and it stays between the starting
\* value of the crossfade and the target.
C37_MonotoneCrossfade ==
    [][CrossfadeSample =>
          \A c \in DOMAIN lp.coeffs :
              Between(lp.coeffs[c], lp'.coeffs[c], lp.new_coeffs[c])]_vars

\* the filter h with the stored gain left out
GainApart(h) == [h EXCEPT !.parameters.gain = RZero]

\* C40: the gain given to low_pass_create or low_pass_update has no
\* influence on the coefficients or the output: two filters driven by the
\* same calls and inputs, the gain values apart, have the same active and
\* target coefficients, return the same results and write the same samples;
\* the gain is only stored, and low_pass_get_parameters reports the value
\* of the last accepted call.
C40_GainHasNoInfluence ==
    /\ GainApart(lp) = GainApart(lpTwin)
    /\ lpOut = lpTwinOut
    /\ lpCall.ret = lpTwinRet
    /\ lp.alloc => low_pass_get_parameters(lp).gain = lpGains[1]
    /\ lpTwin.alloc => low_pass_get_parameters(lpTwin).gain = lpGains[2]

\* both filters were updated with different gains and ran through the
\* whole crossfade
C40_Witness ==
    /\ lpCall.name = "update"
    /\ lpCall.ret = 0
    /\ lpGains[1] # lpGains[2]
    /\ low_pass_get_parameters(lp).gain # low_pass_get_parameters(lpTwin).gain
    /\ lpSince > TABLE_LEN
    /\ lp.update_flag = 0
    /\ lp.coeffs = lpTwin.coeffs
    /\ lpOut # 0

-----------------------------------------------------------------------------
(* Properties of the voice *)

\* the last control call was `name` on a created voice, and no frame was
\* processed since
MoogCalled(name) ==
    /\ moogCall.name = name
    /\ moogCall.pre.alloc
    /\ moogCall.frames = moogFrames

Coupled(h) == h.coupling # MOOG_OSC_COUPLING_NONE

\* current and pending frequency of an oscillator
OscFrequencies(w) ==
    IF ~w.alloc THEN << >>
    ELSE IF w.mode = WAVE_MODE_SINE THEN <<w.gen.f0, w.gen.new_f0>>
    ELSE <<w.gen.f0>>

\* C12 as stated: in every reachable state of a coupled voice, for every
\* waveform, the current frequency of the second oscillator is the current
\* frequency of the first multiplied by the coupling ratio (2 for the
\* octave).
C12_CoupledFrequencyRatio ==
    (moog.alloc /\ Coupled(moog))
    => wave_gen_get_frequency(moog.osc2)
           = moog.coupling_scale * wave_gen_get_frequency(moog.osc1)

\* C13 as stated: when moog_set_frequency returns a non-zero result, no
\* oscillator's current or pending frequency has been modified.
C13_FailedSetFrequencyKeeps ==
    (MoogCalled("set_frequency") /\ moogCall.ret # 0)
    => /\ OscFrequencies(moog.osc1) = OscFrequencies(moogCall.pre.osc1)
       /\ OscFrequencies(moog.osc2) = OscFrequencies(moogCall.pre.osc2)

\* the oscillators of a voice
Oscillators(h) == IF Coupled(h) THEN {"osc1", "osc2"} ELSE {"osc1"}

C15_ToggleForwards ==
    MoogCalled("toggle")
    => /\ moog.osc1 = moogCall.pre.osc1
       /\ moog.osc2 = moogCall.pre.osc2
       /\ moog.lpf = moogCall.pre.lpf
       /\ IF moogCall.arg \in {0, 1}
          THEN LET r == adsr_toggle(moogCall.pre.adsr, moogCall.arg,
                                    moogAccepted)
               IN  moogCall.ret = r.ret /\ moog.adsr = r.h
          ELSE moogCall.ret = -EINVAL /\ moog.adsr = moogCall.pre.adsr

C15_Witness ==
    /\ MoogCalled("toggle")
    /\ moogCall.arg = 1
    /\ moogCall.ret = 0
    /\ moogAccepted = Rat(1, 2)
    /\ moogCall.pre.adsr.state = ADSR_IDLE
    /\ moog.adsr.state = ADSR_ATTACK
    /\ moog.adsr.intensity = Rat(1, 2)

\* C16: in a coupled voice every pre-envelope sample is the sum of the two
\* oscillator samples saturated to [-2^23, 2^23 - 1], the sum being formed
\* without 32-bit wrap-around.
C16_SumSaturates ==
    (moog.alloc /\ Coupled(moog) /\ moogFrames > 0)
    => \A i \in 1..moog.frame_size :
          LET sum == moog.osc1_output[i] + moog.osc2_output[i]
          IN  moog.sum_output[i] =
                  (IF sum > 2^23 - 1 THEN 2^23 - 1
                   ELSE IF sum < -(2^23) THEN -(2^23)
                   ELSE sum)

C16_Witness ==
    /\ moog.alloc /\ Coupled(moog) /\ moogFrames > 0
    /\ \E i \in 1..moog.frame_size :
          /\ moog.osc1_output[i] + moog.osc2_output[i] = 16777214
          /\ moog.sum_output[i] = 8388607
    /\ \E i \in 1..moog.frame_size :
          /\ moog.osc1_output[i] + moog.osc2_output[i] = -16777214
          /\ moog.sum_output[i] = -8388608

\* C18 as stated: every sample that moog_process writes to the output buffer
\* lies in [-2^23, 2^23 - 1], for every accepted configuration and every
\* sequence of control calls.
C18_OutputInRange ==
    \A i \in 1..Len(moogOut) : -(2^23) <= moogOut[i] /\ moogOut[i] <= 2^23 - 1

\* C17 as stated: on the scenario voice (fs = 48000, frames of 500 samples,
\* saw, no coupling, envelope 25 ms / 15 ms / 0.7 / 10 ms) the calls
\* set_frequency(440), toggle(1) and 10 calls of moog_process produce 5000
\* samples of which at least one is non-zero.
C17_ScenarioNonSilent ==
    (moog.alloc /\ moogCall.name = "toggle" /\ moogFrames = ScenarioFrames)
    => moogNonZero > 0

\* C25: the current frequency f of every oscillator of a voice satisfies
\* 0 <= f < fs/2, and f > 0 once moog_set_frequency has set a note frequency
\* (here: as long as the last control call is a moog_set_frequency that
\* returned 0)
C25_OscillatorFrequencies ==
    moog.alloc =>
        \A o \in Oscillators(moog) :
            /\ wave_gen_get_frequency(moog[o]) >= 0
            /\ 2 * wave_gen_get_frequency(moog[o]) < moog.fs
            /\ (moogCall.name = "set_frequency" /\ moogCall.ret = 0)
                   => wave_gen_get_frequency(moog[o]) > 0

\* C27: as long as no moog_toggle call with a non-zero state has returned 0,
\* every sample output by moog_process is 0, whatever calls were made
C27_SilentUntilOn ==
    ~moogOn => \A i \in 1..Len(moogOut) : moogOut[i] = 0

\* a frame was output by a voice never triggered on whose first oscillator
\* produced non-zero samples in that frame
C27_Witness ==
    /\ ~moogOn
    /\ moogFrames > 0
    /\ NonZero(moog.osc1_output) > 0
    /\ Len(moogOut) = VoiceFrameSize
    /\ \A i \in 1..Len(moogOut) : moogOut[i] = 0

-----------------------------------------------------------------------------
(* Properties of the square oscillator *)

\* floor(i * (2^23 - 1)) for the intensity i
SquareLevel(i) == (i.n * QS823_MAX) \div i.d

\* floor(fs / (2 * f0))
SquareHalfPeriod == sqGen.fs \div (2 * sqGen.f0)

\* the phase counter after every processed sample
SquarePhaseInRange ==
    /\ sqGen.index >= 0
    /\ sqGen.index < SquareHalfPeriod
    /\ sqGen.index = sqSamples % SquareHalfPeriod

\* the last sample is +level in the even half periods and -level in the odd
SquareEmits(level) ==
    sqSamples > 0
    => sqOut = IF ((sqSamples - 1) \div SquareHalfPeriod) % 2 = 0
               THEN level ELSE -level

\* C32 as stated: at fixed frequency f0 in (0, fs/2) and fixed intensity i
\* the generator emits only +floor(i * (2^23 - 1)) and
\* -floor(i * (2^23 - 1)), switching every floor(fs / (2 * f0)) samples, and
\* after every processed sample the phase counter is in [0, half_period).
C32_SquareWave ==
    sqGen.alloc /\ sqSteady /\ sqGen.f0 > 0
    => /\ SquarePhaseInRange
       /\ SquareEmits(SquareLevel(sqGen.intensity))

\* C32 amended: the two values are +L and -L for one L, which is
\* floor(i * (2^23 - 1)) or one more.
C32_TwoLevels ==
    sqGen.alloc /\ sqSteady /\ sqGen.f0 > 0
    => /\ SquarePhaseInRange
       /\ \E L \in {SquareLevel(sqGen.intensity),
                    SquareLevel(sqGen.intensity) + 1} :
             /\ sqGen.i_up = L
             /\ sqGen.i_down = -L
             /\ SquareEmits(L)

C32_Witness ==
    /\ sqGen.alloc /\ sqSteady
    /\ sqGen.f0 = 5000
    /\ sqGen.intensity = Rat(7, 10)
    /\ sqSamples = 9
    /\ sqGen.index = 1
    /\ sqOut = 5872025

\* C33: an accepted square_gen_set_intensity keeps the generator on its
\* level (high stays high, low stays low, whatever the previous and the new
\* intensity) and leaves the phase counter alone; an accepted
\* square_gen_set_frequency resets the phase counter to 0 and leaves the
\* current level unchanged.
C33_LevelKept ==
    [][sqCalls' = sqCalls + 1 /\ sqCall'.ret = 0
       => IF sqCall'.name = "intensity"
          THEN /\ sqGen'.index = sqGen.index
               /\ sqGen'.i_current = IF sqHigh
                                     THEN sqGen'.i_up ELSE sqGen'.i_down
               /\ sqGen'.i_up >= 0
               /\ sqGen'.i_down <= 0
          ELSE /\ sqGen'.index = 0
               /\ sqGen'.i_current = sqGen.i_current]_vars

-----------------------------------------------------------------------------
(* Properties of the waveform generator *)

\* C21: a frequency request rejected with -EAGAIN and made again once the
\* transition that was in flight has completed is applied: from then on the
\* generator either reports the requested frequency or is in transition
\* towards it.
C21_RetryApplied ==
    waveRetry.state = "retried" =>
        \/ wave_gen_get_frequency(wave) = waveRetry.f0
        \/ WaveInTransition(wave) /\ wave.gen.new_f0 = waveRetry.f0

-----------------------------------------------------------------------------
(* Properties of the note lookup *)

\* the natural notes, in semitones above C
NaturalSemitones ==
    [A |-> 9, B |-> 11, C |-> 0, D |-> 2, E |-> 4, F |-> 5, G |-> 7]

SuffixSemitones(suffix) ==
    IF suffix = "d" THEN 1 ELSE IF suffix = "b" THEN -1 ELSE 0

\* C29: for every name accepted by check_note_name other than "R" and every
\* rank in 0..8, get_note returns 0 and the frequency of the natural note,
\* one semitone above it for 'd' and one semitone below it for 'b'
C29_NoteFrequency ==
    /\ noteCall.note # ""
    /\ check_note_name(noteCall.note) = 0
    /\ noteCall.note # "R"
    /\ noteCall.rank \in 0..8
    => /\ noteCall.ret = 0
       /\ noteCall.frequency =
              Pitch(12 * noteCall.rank + NaturalSemitones[noteCall.letter]
                       + SuffixSemitones(noteCall.suffix))

-----------------------------------------------------------------------------
(* Properties of the configuration parser *)

\* no line of the file sets the field: no line with this key has a value
CfgUnset(key) ==
    \A i \in 1..Len(cfgCall.file) :
        cfgCall.file[i].key = key => cfgCall.file[i].value = ""

\* C28: after parse_cfg returns 0, every field that no line of the file
\* sets holds its default value
C28_Defaults ==
    cfgCall.done /\ cfgCall.ret = 0 =>
        /\ CfgUnset("tempo") => cfgCall.configuration.tempo = Rat(94, 1)
        /\ CfgUnset("fs") => cfgCall.configuration.m_params.fs = Rat(48000, 1)
        /\ CfgUnset("lp_fc") => cfgCall.configuration.m_params.fc = Rat(400, 1)
        /\ CfgUnset("lp_Q") => cfgCall.configuration.m_params.Q = Rat(3, 2)
        /\ CfgUnset("lp_gain") => cfgCall.configuration.m_params.gain = ROne
        /\ CfgUnset("attack_time")
              => cfgCall.configuration.m_params.attack_time = 25
        /\ CfgUnset("decay_time")
              => cfgCall.configuration.m_params.decay_time = 15
        /\ CfgUnset("sustain")
              => cfgCall.configuration.m_params.sustain = Rat(7, 10)
        /\ CfgUnset("release_time")
              => cfgCall.configuration.m_params.release_time = 10
        /\ CfgUnset("waveform")
              => cfgCall.configuration.m_params.osc_mode = WAVE_MODE_SAW
        /\ CfgUnset("coupling")
              => cfgCall.configuration.m_params.coupling
                    = MOOG_OSC_COUPLING_FIFTH
        /\ CfgUnset("intensity")
              => cfgCall.configuration.intensity = Rat(3, 5)

-----------------------------------------------------------------------------
(* Properties of the driver *)

\* C26: for an event with a gain override and no cutoff override, the
\* filter update passes the filter's current cutoff and the overridden gain
C26_GainOverride ==
    /\ drvSet.called
    /\ drvSet.event.gain_update # LP_NO_UPDATE_VALUE
    /\ drvSet.event.fc_update = LP_NO_UPDATE_VALUE
    => /\ drvSet.args.fc = drvSet.cur.fc
       /\ drvSet.args.gain = drvSet.event.gain_update

=============================================================================
